---------------------------- MODULE Spec2Model ----------------------------
(***************************************************************************)
(* A model of the calculator core of calc-mcp-server:                      *)
(*   services/calculator.py  CalculatorEngine (nine arithmetic operations) *)
(*   services/parser.py      MathExpressionParser (text -> number)         *)
(*   routes/mcp.py           call_calculator_method (the dispatch)         *)
(*                                                                         *)
(* Numbers.  A Python value is a record [t, n, d]:                         *)
(*   t = "int"   d = 1 : the integer n                                     *)
(*   t = "int"   d = 0 : an integer of magnitude above Cap, of sign n      *)
(*   t = "bool"  d = 1 : False (n = 0) or True (n = 1)                     *)
(*   t = "float" d > 0 : the float n/d (in lowest terms)                   *)
(*   t = "float" d = 0 : nan (n = 0), inf (n = 1), -inf (n = -1)           *)
(*   t = "str", "none", "complex", "other" : not an int or a float         *)
(* Floats are exact rationals: the operands and literals of the model are  *)
(* small dyadic numbers, for which the arithmetic of the code is exact.    *)
(***************************************************************************)
EXTENDS Integers, Sequences, FiniteSets, TLC

VARIABLES
    op,     \* the operation of the last call ("none" before the first call)
    args,   \* the dict of its arguments: lists, scalars or the text of an expression
    ret,    \* what it returned: the dict {"result": v} or {"error": msg}
    parser,     \* the attributes of the one parser of the shared engine
    requests,   \* the POST /mcp requests in flight, one per server thread
    evaluation, \* one execution of _evaluate_expression: where it stands
    sse_clients,        \* routes/sse.py: client_id -> the dict of the client
    active_connections, \* routes/sse.py: the set of client ids
    dicts,      \* the client dicts ever made: the list each holds as 'pending_responses'
    lists,      \* the lists ever made: the responses in each
    streams,    \* the event streams (GET /sse/connect), one per connection
    posts,      \* the POST /sse/mcp requests
    answered    \* the responses answered 202 'queued', in the order of the answers

\* the state of the SSE transport
sse == <<sse_clients, active_connections, dicts, lists, streams, posts, answered>>

vars == <<op, args, ret, parser, requests, evaluation, sse>>

\* the state a call of a tool and a POST /mcp leave alone
elsewhere == <<evaluation, sse>>

\* the state the SSE transport leaves alone
calculator_side == <<op, args, ret, parser, requests, evaluation>>

(***************************************************************************)
(* Bounds of the model.                                                    *)
(***************************************************************************)
\* CALC_MAX_VALUE is read from the environment (settings.py:33, default 1e15);
\* the model runs the code with a small value of it, above the exponent limit.
CALC_MAX_VALUE == 1001
\* The longest operand list given to add, multiply, subtract, divide.
MaxOperands == 3
\* the longest text over an alphabet
MaxItems == 3

\* Numerators and denominators are exact up to Cap = 2^30 - 1.  An integer
\* above it is kept as its sign (BigInt); a float that would need more is
\* Unmodelled, and a call that meets one is outside the model.
Cap == 1073741823
Sat == Cap + 1

(***************************************************************************)
(* Values.                                                                 *)
(***************************************************************************)
IntV(n) == [t |-> "int", n |-> n, d |-> 1]
BoolV(b) == [t |-> "bool", n |-> IF b THEN 1 ELSE 0, d |-> 1]
BigInt(s) == [t |-> "int", n |-> s, d |-> 0]
NaN == [t |-> "float", n |-> 0, d |-> 0]
Inf(s) == [t |-> "float", n |-> s, d |-> 0]
StrVal == [t |-> "str", n |-> 0, d |-> 1]
NoneVal == [t |-> "none", n |-> 0, d |-> 1]
ComplexVal == [t |-> "complex", n |-> 0, d |-> 1]
\* a float of magnitude below 1/Cap and sign s (0.0 when it underflows)
TinyFloat(s) == [t |-> "float", n |-> s, d |-> Sat]
Unmodelled == [t |-> "unmodelled", n |-> 0, d |-> 1]

Abs(i) == IF i < 0 THEN -i ELSE i
Sign(i) == IF i < 0 THEN -1 ELSE IF i > 0 THEN 1 ELSE 0

RECURSIVE Gcd(_, _)
Gcd(a, b) == IF b = 0 THEN a ELSE Gcd(b, a % b)

\* x * y, or +-Sat when the product is above Cap in magnitude.
SatMul(x, y) ==
    IF x = 0 \/ y = 0 THEN 0
    ELSE IF Abs(x) > Cap \div Abs(y) THEN Sign(x) * Sign(y) * Sat
    ELSE x * y

\* The float n/d, d # 0, in lowest terms with a positive denominator.
Flt(n, d) ==
    LET g == Gcd(Abs(n), Abs(d))
        s == IF d < 0 THEN -1 ELSE 1
    IN [t |-> "float", n |-> s * (n \div g), d |-> s * (d \div g)]

MkFloat(n, d) == IF Abs(n) > Cap \/ Abs(d) > Cap THEN Unmodelled ELSE Flt(n, d)

\* An integer result, kept exactly up to Cap.
IntOrBig(n) == IF Abs(n) > Cap THEN BigInt(Sign(n)) ELSE IntV(n)

IsUnmodelled(v) == v.t = "unmodelled"
IsNumber(v) == v.t \in {"int", "bool", "float"}     \* isinstance(v, (int, float))
IsFloat(v) == v.t = "float"
IsNaN(v) == v.t = "float" /\ v.d = 0 /\ v.n = 0
IsInf(v) == v.t = "float" /\ v.d = 0 /\ v.n # 0
IsBig(v) == v.t = "int" /\ v.d = 0
IsFinite(v) == IsNumber(v) /\ v.d > 0
IsZero(v) == IsFinite(v) /\ v.n = 0                  \* v == 0
IsNegative(v) == IsNumber(v) /\ ~IsNaN(v) /\ v.n < 0 \* v < 0
SignOf(v) == Sign(v.n)

\* abs(v) > m, for a number v and an integer m >= 0: False for nan.
AbsGreater(v, m) ==
    IF v.d = 0 THEN ~IsNaN(v) ELSE Abs(v.n) > SatMul(m, v.d)

\* abs(v) <= m: False for nan.
AbsAtMost(v, m) ==
    IF v.d = 0 THEN FALSE ELSE Abs(v.n) <= SatMul(m, v.d)

\* v > m, for a number v and an integer m >= 0.
Greater(v, m) ==
    IF v.d = 0 THEN v.n > 0 ELSE v.n > SatMul(m, v.d)

\* float.is_integer(), or an int
IsInteger(v) == IsNumber(v) /\ (v.d = 1 \/ IsBig(v))

\* Two values are the same number (Python's ==, an int equal to a float).
SameNumber(a, b) ==
    /\ IsFinite(a) /\ IsFinite(b)
    /\ SatMul(a.n, b.d) = SatMul(b.n, a.d)

EitherFloat(a, b) == IsFloat(a) \/ IsFloat(b)

\* An integer above Cap meets a float: its conversion to a float may overflow.
BigWithFloat(a, b) == (IsBig(a) /\ IsFloat(b)) \/ (IsFloat(a) /\ IsBig(b))

\* a + b: nan when either is; inf - inf is nan.
NumAdd(a, b) ==
    IF IsUnmodelled(a) \/ IsUnmodelled(b) \/ BigWithFloat(a, b) THEN Unmodelled
    ELSE IF IsNaN(a) \/ IsNaN(b) THEN NaN
    ELSE IF IsInf(a) /\ IsInf(b) THEN (IF a.n = b.n THEN a ELSE NaN)
    ELSE IF IsInf(a) THEN (IF IsBig(b) THEN Unmodelled ELSE a)
    ELSE IF IsInf(b) THEN (IF IsBig(a) THEN Unmodelled ELSE b)
    ELSE IF IsBig(a) \/ IsBig(b)
         THEN (IF EitherFloat(a, b) THEN Unmodelled
               ELSE IF IsBig(a) /\ IsBig(b)
                    THEN (IF a.n = b.n THEN a ELSE Unmodelled)
               ELSE IF IsBig(a) THEN a ELSE b)
    ELSE IF EitherFloat(a, b)
         THEN LET x == SatMul(a.n, b.d)
                  y == SatMul(b.n, a.d)
              IN IF Abs(x) > Cap \/ Abs(y) > Cap THEN Unmodelled
                 ELSE MkFloat(x + y, SatMul(a.d, b.d))
    ELSE IntOrBig(a.n + b.n)

NumNeg(a) ==
    IF IsNaN(a) \/ IsUnmodelled(a) THEN a
    ELSE [t |-> IF a.t = "bool" THEN "int" ELSE a.t, n |-> -a.n, d |-> a.d]

NumSub(a, b) == NumAdd(a, NumNeg(b))

NumAbs(a) ==
    IF IsUnmodelled(a) THEN a
    ELSE [t |-> IF a.t = "bool" THEN "int" ELSE a.t, n |-> Abs(a.n), d |-> a.d]

NumMul(a, b) ==
    IF IsUnmodelled(a) \/ IsUnmodelled(b) \/ BigWithFloat(a, b) THEN Unmodelled
    ELSE IF IsNaN(a) \/ IsNaN(b) THEN NaN
    ELSE IF IsInf(a) \/ IsInf(b)
         THEN (IF IsZero(a) \/ IsZero(b) THEN NaN
               ELSE IF IsBig(a) \/ IsBig(b) THEN Unmodelled
               ELSE Inf(SignOf(a) * SignOf(b)))
    ELSE IF IsBig(a) \/ IsBig(b)
         THEN (IF EitherFloat(a, b) THEN Unmodelled
               ELSE IF IsZero(a) \/ IsZero(b) THEN IntV(0)
               ELSE BigInt(SignOf(a) * SignOf(b)))
    ELSE IF EitherFloat(a, b)
         THEN MkFloat(SatMul(a.n, b.n), SatMul(a.d, b.d))
    ELSE IntOrBig(SatMul(a.n, b.n))

\* a / b for b # 0: always a float.
NumDiv(a, b) ==
    IF IsUnmodelled(a) \/ IsUnmodelled(b) \/ BigWithFloat(a, b) THEN Unmodelled
    ELSE IF IsNaN(a) \/ IsNaN(b) THEN NaN
    ELSE IF IsBig(a) \/ IsBig(b) THEN Unmodelled
    ELSE IF IsInf(a) THEN (IF IsInf(b) THEN NaN
                           ELSE Inf(a.n * (IF b.n < 0 THEN -1 ELSE 1)))
    ELSE IF IsInf(b) THEN Flt(0, 1)
    ELSE MkFloat(SatMul(a.n, b.d), SatMul(a.d, b.n))

\* a % b for b # 0: the sign of the divisor (Python's modulo).
NumMod(a, b) ==
    IF IsUnmodelled(a) \/ IsUnmodelled(b) \/ BigWithFloat(a, b) THEN Unmodelled
    ELSE IF IsNaN(a) \/ IsNaN(b) \/ IsInf(a) THEN NaN
    ELSE IF IsBig(a) \/ IsBig(b) THEN Unmodelled
    ELSE IF IsInf(b)
         THEN (IF a.n = 0 \/ Sign(a.n) = b.n THEN Flt(a.n, a.d) ELSE b)
    ELSE LET x == SatMul(a.n, b.d)
             y == SatMul(b.n, a.d)
             dd == SatMul(a.d, b.d)
             q == IF y > 0 THEN x \div y ELSE (-x) \div (-y)
         IN IF Abs(x) > Cap \/ Abs(y) > Cap \/ dd > Cap THEN Unmodelled
            ELSE IF EitherFloat(a, b) THEN Flt(x - q * y, dd)
            ELSE IntV(x - q * y)

\* The integer square root of x >= 0.
ISqrt(x) == CHOOSE r \in 0..x : r * r <= x /\ (r + 1) * (r + 1) > x

IsSquare(x) == ISqrt(x) * ISqrt(x) = x

\* math.sqrt(v) for a number v >= 0 or nan.  The root of a non-square is
\* irrational: it is kept as floor + 1/2, a non-integral float between the
\* same two integers.
NumSqrt(v) ==
    IF IsNaN(v) THEN NaN
    ELSE IF IsInf(v) THEN v
    ELSE IF IsSquare(v.n) /\ IsSquare(v.d) THEN Flt(ISqrt(v.n), ISqrt(v.d))
    ELSE Flt(2 * ISqrt(v.n \div v.d) + 1, 2)

\* n! for 0 <= n, exact up to Cap and a big integer above it: the product
\* 1 * 2 * ... * n, given up once it is above Cap.
RECURSIVE FactUpTo(_, _, _)
FactUpTo(i, n, acc) ==
    IF i > n \/ acc > Cap THEN acc ELSE FactUpTo(i + 1, n, SatMul(acc, i))

FactCapped(n) == FactUpTo(1, n, 1)

NumFactorial(n) == IntOrBig(FactCapped(n))

\* b ** e for integers b and e >= 0, by squaring; saturates above Cap.
RECURSIVE IntPowCapped(_, _)
IntPowCapped(b, e) ==
    IF e = 0 THEN 1
    ELSE IF Abs(b) <= 1 THEN (IF b = -1 /\ e % 2 = 0 THEN 1 ELSE b)
    ELSE LET h == IntPowCapped(b, e \div 2)
             sq == SatMul(h, h)
             r == IF e % 2 = 1 THEN SatMul(sq, Abs(b)) ELSE sq
         IN IF b < 0 /\ e % 2 = 1 THEN -r ELSE r

(***************************************************************************)
(* What a function hands back: the dict it returns, or the exception it    *)
(* raises.                                                                 *)
(***************************************************************************)
Result(v) == [result |-> v]
Error(msg) == [error |-> msg]
Raised(exc, msg) == [raise |-> exc, msg |-> msg]
ReturnedNone == [none |-> TRUE]

IsResult(r) == "result" \in DOMAIN r
IsError(r) == "error" \in DOMAIN r
IsRaised(r) == "raise" \in DOMAIN r

\* except Exception as e: return {"error": str(e)}
CatchAsError(r) == IF IsRaised(r) THEN Error(r.msg) ELSE r

\* pow(base, exponent) for numbers with an integral exponent.
\*   int ** int >= 0 is an exact integer; a negative exponent gives a float,
\*   and 0 to a negative power raises ZeroDivisionError;
\*   nan ** 0 and 1 ** nan are 1.0, any other power with nan is nan.
\* A float power too small for 1/Cap is kept as its sign (TinyFloat).
NumPow(b, e) ==
    IF BigWithFloat(b, e) THEN Result(Unmodelled)
    ELSE IF IsNaN(e) THEN (IF IsFinite(b) /\ b.n = b.d THEN Result(Flt(1, 1)) ELSE Result(NaN))
    ELSE IF IsNaN(b) THEN (IF e.n = 0 THEN Result(Flt(1, 1)) ELSE Result(NaN))
    ELSE IF ~(IsFinite(b) /\ IsFinite(e) /\ e.d = 1) THEN Result(Unmodelled)
    ELSE IF b.n = 0 /\ e.n < 0
         THEN Raised("ZeroDivisionError", "0.0 cannot be raised to a negative power")
    ELSE LET k == Abs(e.n)
             pn == IntPowCapped(b.n, k)
             pd == IntPowCapped(b.d, k)
             float == IsFloat(b) \/ IsFloat(e) \/ e.n < 0
             num == IF e.n < 0 THEN Sign(pn) * pd ELSE pn
             den == IF e.n < 0 THEN Abs(pn) ELSE pd
         IN IF ~float THEN Result(IntOrBig(pn))
            ELSE IF Abs(num) > Cap THEN Result(Unmodelled)
            ELSE IF den > Cap THEN Result(TinyFloat(Sign(num)))
            ELSE Result(Flt(num, den))

(***************************************************************************)
(* CalculatorEngine (services/calculator.py).                              *)
(***************************************************************************)
\* A validation that looks at the first number only.
ValidateFirstOnly(numbers) ==
    IF Len(numbers) = 0 THEN ReturnedNone
    ELSE IF ~IsNumber(Head(numbers)) THEN Raised("ValueError", "Invalid number type")
    ELSE IF AbsGreater(Head(numbers), CALC_MAX_VALUE)
    THEN Raised("ValueError", "Number too large")
    ELSE ReturnedNone

RECURSIVE _validate_numbers(_)
_validate_numbers(numbers) ==
    IF Len(numbers) = 0 THEN ReturnedNone
    ELSE LET num == Head(numbers)
         IN IF ~IsNumber(num)
            THEN Raised("ValueError", "Invalid number type")
            ELSE IF AbsGreater(num, CALC_MAX_VALUE)
            THEN Raised("ValueError", "Number too large")
            ELSE _validate_numbers(Tail(numbers))

\* sum(numbers), from the integer 0
RECURSIVE SumFrom(_, _)
SumFrom(acc, numbers) ==
    IF Len(numbers) = 0 THEN acc
    ELSE SumFrom(NumAdd(acc, Head(numbers)), Tail(numbers))

BuiltinSum(numbers) == SumFrom(IntV(0), numbers)

\* An addition that takes a single number.
AddOneOrMore(numbers) ==
    IF Len(numbers) < 1 THEN Error("Addition requires at least 2 numbers")
    ELSE IF AbsGreater(BuiltinSum(numbers), CALC_MAX_VALUE) THEN Error("Result too large")
    ELSE Result(BuiltinSum(numbers))

add_body(numbers) ==
    IF Len(numbers) < 2 THEN Error("Addition requires at least 2 numbers")
    ELSE LET v == _validate_numbers(numbers)
             result == BuiltinSum(numbers)
         IN IF IsRaised(v) THEN v
            ELSE IF AbsGreater(result, CALC_MAX_VALUE) THEN Error("Result too large")
            ELSE Result(result)

add(numbers) == CatchAsError(add_body(numbers))

subtract_body(minuend, subtrahends) ==
    IF Len(subtrahends) = 0 THEN Error("Subtraction requires at least 2 numbers")
    ELSE LET v == _validate_numbers(<<minuend>> \o subtrahends)
             result == NumSub(minuend, BuiltinSum(subtrahends))
         IN IF IsRaised(v) THEN v
            ELSE IF AbsGreater(result, CALC_MAX_VALUE) THEN Error("Result too large")
            ELSE Result(result)

subtract(minuend, subtrahends) == CatchAsError(subtract_body(minuend, subtrahends))

\* for num in numbers: result *= num; check the running product
RECURSIVE MultiplyLoop(_, _)
MultiplyLoop(result, numbers) ==
    IF Len(numbers) = 0 THEN Result(result)
    ELSE LET r == NumMul(result, Head(numbers))
         IN IF AbsGreater(r, CALC_MAX_VALUE)
            THEN Error("Result too large during multiplication")
            ELSE MultiplyLoop(r, Tail(numbers))

\* the running value of a loop after its first k steps: result *= num for
\* multiply, result /= divisor for divide
RECURSIVE Running(_, _, _, _)
Running(o, result, numbers, k) ==
    IF k = 0 THEN result
    ELSE LET r == Running(o, result, numbers, k - 1)
         IN IF o = "multiply" THEN NumMul(r, numbers[k]) ELSE NumDiv(r, numbers[k])

\* A multiplication that checks the product of all the operands only.
MultiplyThenCheck(numbers) ==
    IF Len(numbers) < 2 THEN Error("Multiplication requires at least 2 numbers")
    ELSE LET v == _validate_numbers(numbers)
             r == Running("multiply", IntV(1), numbers, Len(numbers))
         IN IF IsRaised(v) THEN v
            ELSE IF AbsGreater(r, CALC_MAX_VALUE)
            THEN Error("Result too large during multiplication")
            ELSE Result(r)

multiply_body(numbers) ==
    IF Len(numbers) < 2 THEN Error("Multiplication requires at least 2 numbers")
    ELSE LET v == _validate_numbers(numbers)
         IN IF IsRaised(v) THEN v ELSE MultiplyLoop(IntV(1), numbers)

multiply(numbers) == CatchAsError(multiply_body(numbers))

\* for divisor in divisors: result /= divisor; check the running quotient
RECURSIVE DivideLoop(_, _)
DivideLoop(result, divisors) ==
    IF Len(divisors) = 0 THEN Result(result)
    ELSE LET r == NumDiv(result, Head(divisors))
         IN IF AbsGreater(r, CALC_MAX_VALUE)
            THEN Error("Result too large during division")
            ELSE DivideLoop(r, Tail(divisors))

divide_body(dividend, divisors) ==
    IF Len(divisors) = 0 THEN Error("Division requires at least 2 numbers")
    ELSE LET v == _validate_numbers(<<dividend>> \o divisors)
         IN IF IsRaised(v) THEN v
            ELSE IF \E i \in 1..Len(divisors) : IsZero(divisors[i])
            THEN Error("Division by zero")
            ELSE DivideLoop(dividend, divisors)

divide(dividend, divisors) == CatchAsError(divide_body(dividend, divisors))

\* A guard that lets the exponent 1001 through.
PowerUpTo1001(base, exponent) ==
    LET v == _validate_numbers(<<base, exponent>>)
        result == NumPow(base, exponent)
    IN IF IsRaised(v) THEN v
       ELSE IF AbsGreater(exponent, 1001) THEN Error("Exponent too large (max: 1000)")
       ELSE IF IsRaised(result) THEN result
       ELSE IF AbsGreater(result.result, CALC_MAX_VALUE) THEN Error("Result too large")
       ELSE result

power_body(base, exponent) ==
    LET v == _validate_numbers(<<base, exponent>>)
        result == NumPow(base, exponent)
    IN IF IsRaised(v) THEN v
       ELSE IF AbsGreater(exponent, 1000) THEN Error("Exponent too large (max: 1000)")
       ELSE IF IsRaised(result) THEN result
       ELSE IF AbsGreater(result.result, CALC_MAX_VALUE) THEN Error("Result too large")
       ELSE result

\* except OverflowError comes first; no power of the model's operands
\* overflows a float, so every exception here goes to except Exception.
power(base, exponent) ==
    LET r == power_body(base, exponent)
    IN IF IsRaised(r) /\ r.raise = "OverflowError"
       THEN Error("Mathematical overflow in power calculation")
       ELSE CatchAsError(r)

sqrt_body(number) ==
    LET v == _validate_numbers(<<number>>)
    IN IF IsRaised(v) THEN v
       ELSE IF IsNegative(number)
       THEN Error("Cannot calculate square root of negative number")
       ELSE Result(NumSqrt(number))

sqrt(number) == CatchAsError(sqrt_body(number))

\* A factorial whose domain ends at 171.
FactorialUpTo171(number) ==
    IF number.t # "int" \/ IsBig(number)
    THEN Error("Factorial requires a non-negative integer")
    ELSE IF number.n < 0 THEN Error("Factorial requires a non-negative integer")
    ELSE IF number.n > 171
    THEN Error("Number too large for factorial calculation (max: 170)")
    ELSE IF Greater(NumFactorial(number.n), CALC_MAX_VALUE) THEN Error("Result too large")
    ELSE Result(NumFactorial(number.n))

factorial_body(number) ==
    IF ~(number.t \in {"int", "bool"}) /\ ~(number.t = "float" /\ number.d = 1)
    THEN Error("Factorial requires a non-negative integer")
    ELSE IF IsBig(number) THEN
        (IF number.n < 0 THEN Error("Factorial requires a non-negative integer")
         ELSE Error("Number too large for factorial calculation (max: 170)"))
    ELSE LET n == number.n
             result == NumFactorial(n)
         IN IF n < 0 THEN Error("Factorial requires a non-negative integer")
            ELSE IF n > 170
            THEN Error("Number too large for factorial calculation (max: 170)")
            ELSE IF Greater(result, CALC_MAX_VALUE) THEN Error("Result too large")
            ELSE Result(result)

factorial(number) == CatchAsError(factorial_body(number))

modulo_body(dividend, divisor) ==
    LET v == _validate_numbers(<<dividend, divisor>>)
    IN IF IsRaised(v) THEN v
       ELSE IF IsZero(divisor) THEN Error("Division by zero in modulo operation")
       ELSE Result(NumMod(dividend, divisor))

modulo(dividend, divisor) == CatchAsError(modulo_body(dividend, divisor))

absolute_body(number) ==
    LET v == _validate_numbers(<<number>>)
    IN IF IsRaised(v) THEN v ELSE Result(NumAbs(number))

absolute(number) == CatchAsError(absolute_body(number))

(***************************************************************************)
(* Text.  An expression is a sequence of items, each a piece of text that  *)
(* no step of the parser splits: a word (a run of letters), one digit, a   *)
(* double underscore "__", one blank " ", or one other character.  Items   *)
(* that are not blanks or punctuation are word characters (\w): adjacent   *)
(* ones read as one run, with no word boundary (\b) between them.          *)
(***************************************************************************)
Digits == {"0", "1", "2", "3", "4", "5", "6", "7", "8", "9"}
Punctuation == {" ", "+", "-", "*", "/", "%", "(", ")", ".", ",", "?", "!", "<", ">"}

IsSpace(c) == c = " "
IsDigit(c) == c \in Digits
IsWordChar(c) == c \notin Punctuation

DigitVal(c) ==
    CASE c = "0" -> 0 [] c = "1" -> 1 [] c = "2" -> 2 [] c = "3" -> 3
      [] c = "4" -> 4 [] c = "5" -> 5 [] c = "6" -> 6 [] c = "7" -> 7
      [] c = "8" -> 8 [] c = "9" -> 9

\* str.lower(): the upper-case words of the model's texts
LowerItem(c) ==
    CASE c = "EXEC" -> "exec"
      [] c = "Plus" -> "plus"
      [] c = "Compute" -> "compute"
      [] OTHER -> c

StrLower(s) == [i \in 1..Len(s) |-> LowerItem(s[i])]

\* str.strip()
RECURSIVE LStrip(_)
LStrip(s) == IF Len(s) > 0 /\ IsSpace(Head(s)) THEN LStrip(Tail(s)) ELSE s

RECURSIVE RStrip(_)
RStrip(s) ==
    IF Len(s) > 0 /\ IsSpace(s[Len(s)]) THEN RStrip(SubSeq(s, 1, Len(s) - 1)) ELSE s

StrStrip(s) == RStrip(LStrip(s))

\* str.startswith(prefix)
StartsWith(s, prefix) ==
    Len(s) >= Len(prefix) /\ SubSeq(s, 1, Len(prefix)) = prefix

\* s[i:] (i counted from 1)
From(s, i) == SubSeq(s, i, Len(s))

\* the literal text p stands at position i of s
MatchAt(s, i, p) ==
    i + Len(p) - 1 <= Len(s) /\ SubSeq(s, i, i + Len(p) - 1) = p

\* a word boundary before position i, for a word character at i
BoundaryBefore(s, i) == i = 1 \/ ~IsWordChar(s[i - 1])
\* a word boundary before position i, for a word character at i - 1
BoundaryAfter(s, i) == i > Len(s) \/ ~IsWordChar(s[i])

\* the first position >= i of s that holds no blank (no digit): Len(s)+1 if none
RECURSIVE SkipSpaces(_, _)
SkipSpaces(s, i) == IF i <= Len(s) /\ IsSpace(s[i]) THEN SkipSpaces(s, i + 1) ELSE i

RECURSIVE SkipDigits(_, _)
SkipDigits(s, i) == IF i <= Len(s) /\ IsDigit(s[i]) THEN SkipDigits(s, i + 1) ELSE i

\* re.sub(r'\b' + phrase + r'\b', repl, s): leftmost matches, not overlapping
RECURSIVE ReSubWordsFrom(_, _, _, _)
ReSubWordsFrom(s, i, phrase, repl) ==
    IF i > Len(s) THEN <<>>
    ELSE IF MatchAt(s, i, phrase) /\ BoundaryBefore(s, i)
            /\ BoundaryAfter(s, i + Len(phrase))
    THEN repl \o ReSubWordsFrom(s, i + Len(phrase), phrase, repl)
    ELSE <<s[i]>> \o ReSubWordsFrom(s, i + 1, phrase, repl)

ReSubWords(phrase, repl, s) == ReSubWordsFrom(s, 1, phrase, repl)

\* re.sub(chars, '', s) for a character class
RemoveChars(chars, s) == SelectSeq(s, LAMBDA c : c \notin chars)

\* re.sub(r'\s+', ' ', s)
RECURSIVE CollapseSpacesFrom(_, _)
CollapseSpacesFrom(s, i) ==
    IF i > Len(s) THEN <<>>
    ELSE IF IsSpace(s[i]) THEN <<" ">> \o CollapseSpacesFrom(s, SkipSpaces(s, i))
    ELSE <<s[i]>> \o CollapseSpacesFrom(s, i + 1)

CollapseSpaces(s) == CollapseSpacesFrom(s, 1)

\* re.sub(r'(\d+)\s*' + word, r'(\1)' + suffix, s)
RECURSIVE ReSubPostfixFrom(_, _, _, _)
ReSubPostfixFrom(s, i, word, suffix) ==
    IF i > Len(s) THEN <<>>
    ELSE LET j == SkipDigits(s, i)
             k == SkipSpaces(s, j)
         IN IF j > i /\ k <= Len(s) /\ s[k] = word
            THEN <<"(">> \o SubSeq(s, i, j - 1) \o <<")">> \o suffix
                    \o ReSubPostfixFrom(s, k + 1, word, suffix)
            ELSE <<s[i]>> \o ReSubPostfixFrom(s, i + 1, word, suffix)

ReSubPostfix(word, suffix, s) == ReSubPostfixFrom(s, 1, word, suffix)

\* re.sub(r'\s*([...])\s*', r'\1', s) for a class of single characters:
\* every run of blanks next to one of them goes
RECURSIVE PrevNonSpace(_, _)
PrevNonSpace(s, i) ==
    IF i < 1 THEN " " ELSE IF IsSpace(s[i]) THEN PrevNonSpace(s, i - 1) ELSE s[i]

RECURSIVE NextNonSpace(_, _)
NextNonSpace(s, i) ==
    IF i > Len(s) THEN " " ELSE IF IsSpace(s[i]) THEN NextNonSpace(s, i + 1) ELSE s[i]

\* the items of s at the positions that keep accepts
KeepWhere(s, keep(_)) ==
    LET kept == SelectSeq([i \in 1..Len(s) |-> i], keep)
    IN [j \in 1..Len(kept) |-> s[kept[j]]]

StripSpacesAround(chars, s) ==
    KeepWhere(s, LAMBDA i : ~(IsSpace(s[i])
                                 /\ (PrevNonSpace(s, i) \in chars
                                     \/ NextNonSpace(s, i) \in chars)))

\* re.sub(r'\s*(\*\*)\s*', r'\1', s)
StripSpacesAroundPower(s) ==
    KeepWhere(s, LAMBDA i :
        ~(IsSpace(s[i])
          /\ LET a == SkipSpaces(s, i)
                 b == i - 1
             IN \/ (a + 1 <= Len(s) /\ s[a] = "*" /\ s[a + 1] = "*")
                \/ \E e \in 2..b : s[e - 1] = "*" /\ s[e] = "*"
                                   /\ SkipSpaces(s, e + 1) > i))

(***************************************************************************)
(* The parser's configuration (config/config.yaml, read by _load_config).  *)
(* Mappings are sequences in the order the file lists them, as the loops   *)
(* over .items() visit them.                                               *)
(***************************************************************************)
word_to_number ==
    << [word |-> <<"zero">>, number |-> <<"0">>],
       [word |-> <<"one">>, number |-> <<"1">>],
       [word |-> <<"two">>, number |-> <<"2">>],
       [word |-> <<"three">>, number |-> <<"3">>],
       [word |-> <<"four">>, number |-> <<"4">>],
       [word |-> <<"five">>, number |-> <<"5">>],
       [word |-> <<"ten">>, number |-> <<"1", "0">>] >>

ToThePowerOf == <<"to", " ", "the", " ", "power", " ", "of">>
SquareRoot == <<"square", " ", "root">>

operation_words ==
    << [word |-> <<"plus">>, symbol |-> <<"+">>],
       [word |-> <<"minus">>, symbol |-> <<"-">>],
       [word |-> <<"times">>, symbol |-> <<"*">>],
       [word |-> <<"divided", " ", "by">>, symbol |-> <<"/">>],
       [word |-> ToThePowerOf, symbol |-> <<"*", "*">>],
       [word |-> SquareRoot, symbol |-> <<"sqrt">>],
       [word |-> <<"squared">>, symbol |-> <<"*", "*", "2">>],
       [word |-> <<"cubed">>, symbol |-> <<"*", "*", "3">>] >>

prefixes ==
    << <<"what", " ", "is", " ">>, <<"calculate", " ">>,
       <<"compute", " ">>, <<"find", " ">> >>

\* the patterns: __\w+__, import\s+, exec\s*\(, eval\s*\(, open\s*\(, input\s*\(
dangerous_patterns ==
    << [kind |-> "dunder", word |-> "__"],
       [kind |-> "spaces", word |-> "import"],
       [kind |-> "call", word |-> "exec"],
       [kind |-> "call", word |-> "eval"],
       [kind |-> "call", word |-> "open"],
       [kind |-> "call", word |-> "input"] >>

safe_functions ==
    << [name |-> "sqrt", mapping |-> <<"math", ".", "sqrt">>],
       [name |-> "factorial", mapping |-> <<"math", ".", "factorial">>] >>

(***************************************************************************)
(* MathExpressionParser.__init__: the attributes the parser reads in every *)
(* call, as loaded from the configuration.  The engine, and with it the    *)
(* parser, is made once when routes/mcp.py is imported and shared by all   *)
(* requests.                                                               *)
(***************************************************************************)
MathExpressionParser ==
    [word_to_number |-> word_to_number,
     operation_words |-> operation_words,
     normalization_config |-> [prefixes |-> prefixes],
     security_config |-> [dangerous_patterns |-> dangerous_patterns],
     safe_functions |-> safe_functions]

(***************************************************************************)
(* MathExpressionParser._normalize_expression (services/parser.py)         *)
(***************************************************************************)
\* the characters of the default remove_chars class '[?!]'
remove_chars == {"?", "!"}

\* A removal of the phrase 'find ' wherever it first stands.
RemoveFindAnywhere(expr, i) ==
    LET find == prefixes[4]
        at == {k \in 1..Len(expr) : MatchAt(expr, k, find)}
    IN IF at = {} THEN expr
       ELSE LET k == CHOOSE k \in at : \A j \in at : k <= j
            IN StrStrip(SubSeq(expr, 1, k - 1) \o From(expr, k + Len(find)))

RECURSIVE RemovePrefixes(_, _)
RemovePrefixes(expr, i) ==
    LET phrases == parser.normalization_config.prefixes
    IN IF i > Len(phrases) THEN expr
       ELSE IF StartsWith(expr, phrases[i])
       THEN RemovePrefixes(StrStrip(From(expr, Len(phrases[i]) + 1)), i + 1)
       ELSE RemovePrefixes(expr, i + 1)

_normalize_expression(expr) ==
    LET lowered == StrStrip(StrLower(expr))
        unprefixed == RemovePrefixes(lowered, 1)
        cleaned == RemoveChars(remove_chars, unprefixed)
    IN CollapseSpaces(cleaned)

(***************************************************************************)
(* MathExpressionParser._convert_to_math_expression                        *)
(***************************************************************************)
RECURSIVE ReplaceNumberWords(_, _)
ReplaceNumberWords(expr, i) ==
    IF i > Len(parser.word_to_number) THEN expr
    ELSE ReplaceNumberWords(
             ReSubWords(parser.word_to_number[i].word, parser.word_to_number[i].number, expr),
             i + 1)

\* A replacement that takes 'squared' for a doubling.
RECURSIVE SquaredAsDoubled(_, _)
SquaredAsDoubled(expr, i) ==
    IF i > Len(parser.operation_words) THEN expr
    ELSE LET word == parser.operation_words[i].word
             symbol == IF word = <<"squared">> THEN <<"*", "2">>
                       ELSE parser.operation_words[i].symbol
             replaced ==
                 IF word = SquareRoot
                 THEN ReSubWords(<<"square", " ", "root", " ", "of">>, <<"sqrt">>, expr)
                 ELSE ReSubWords(word, symbol, expr)
         IN SquaredAsDoubled(replaced, i + 1)

RECURSIVE ReplaceOperationWords(_, _)
ReplaceOperationWords(expr, i) ==
    IF i > Len(parser.operation_words) THEN expr
    ELSE LET word == parser.operation_words[i].word
             symbol == parser.operation_words[i].symbol
             replaced ==
                 IF word = ToThePowerOf
                 THEN ReSubWords(ToThePowerOf, <<"*", "*">>, expr)
                 ELSE IF word = SquareRoot
                 THEN ReSubWords(<<"square", " ", "root", " ", "of">>, <<"sqrt">>, expr)
                 ELSE ReSubWords(word, symbol, expr)
         IN ReplaceOperationWords(replaced, i + 1)

OperatorChars == {"+", "-", "*", "/", "(", ")", "%"}

\* A conversion that leaves the operation words as they are.
ConvertNumberWordsOnly(expr) ==
    StrStrip(StripSpacesAroundPower(
        StripSpacesAround(OperatorChars, ReplaceNumberWords(expr, 1))))

_convert_to_math_expression(expr) ==
    LET numbers == ReplaceNumberWords(expr, 1)
        symbols == ReplaceOperationWords(numbers, 1)
        squared == ReSubPostfix("squared", <<"*", "*", "2">>, symbols)
        cubed == ReSubPostfix("cubed", <<"*", "*", "3">>, squared)
        compact == StripSpacesAround(OperatorChars, cubed)
    IN StrStrip(StripSpacesAroundPower(compact))

(***************************************************************************)
(* MathExpressionParser._evaluate_expression: the scan for dangerous       *)
(* patterns (re.search with re.IGNORECASE) and the rewriting of the safe   *)
(* function names                                                          *)
(***************************************************************************)
\* __\w+__ : two underscores, one word character or more, two underscores
SearchDunder(s) ==
    \E i \in 1..Len(s) : \E j \in (i + 2)..Len(s) :
        /\ s[i] = "__" /\ s[j] = "__"
        /\ \A k \in i..j : IsWordChar(s[k])

\* word\s+
SearchWordSpaces(word, s) ==
    \E i \in 1..(Len(s) - 1) : LowerItem(s[i]) = word /\ IsSpace(s[i + 1])

\* word\s*\(
SearchWordCall(word, s) ==
    \E i \in 1..Len(s) :
        /\ LowerItem(s[i]) = word
        /\ LET j == SkipSpaces(s, i + 1) IN j <= Len(s) /\ s[j] = "("

ReSearch(pattern, s) ==
    CASE pattern.kind = "dunder" -> SearchDunder(s)
      [] pattern.kind = "spaces" -> SearchWordSpaces(pattern.word, s)
      [] pattern.kind = "call" -> SearchWordCall(pattern.word, s)

IsDangerous(s) ==
    LET patterns == parser.security_config.dangerous_patterns
    IN \E i \in 1..Len(patterns) : ReSearch(patterns[i], s)

\* the first position >= i of s that holds ")": Len(s)+1 if none
RECURSIVE FindClose(_, _)
FindClose(s, i) == IF i <= Len(s) /\ s[i] # ")" THEN FindClose(s, i + 1) ELSE i

\* re.sub(func + r'\(([^)]+)\)', mapping + '(' + before + r'\1' + after + ')', s)
RECURSIVE ReSubCallFrom(_, _, _, _, _, _)
ReSubCallFrom(s, i, func, mapping, before, after) ==
    IF i > Len(s) THEN <<>>
    ELSE LET j == FindClose(s, i + 2)
         IN IF s[i] = func /\ i + 1 <= Len(s) /\ s[i + 1] = "("
               /\ j <= Len(s) /\ j > i + 2
            THEN mapping \o <<"(">> \o before \o SubSeq(s, i + 2, j - 1) \o after
                    \o <<")">> \o ReSubCallFrom(s, j + 1, func, mapping, before, after)
            ELSE <<s[i]>> \o ReSubCallFrom(s, i + 1, func, mapping, before, after)

ReSubCall(func, mapping, before, after, s) ==
    ReSubCallFrom(s, 1, func, mapping, before, after)

\* re.sub(r'sqrt\s+of\s+(\d+)', mapping + r'(\1)', s)
RECURSIVE ReSubSqrtOfFrom(_, _, _)
ReSubSqrtOfFrom(s, i, mapping) ==
    IF i > Len(s) THEN <<>>
    ELSE LET b == SkipSpaces(s, i + 1)
             d == SkipSpaces(s, b + 1)
             e == SkipDigits(s, d)
         IN IF s[i] = "sqrt" /\ b > i + 1 /\ b <= Len(s) /\ s[b] = "of"
               /\ d > b + 1 /\ e > d
            THEN mapping \o <<"(">> \o SubSeq(s, d, e - 1) \o <<")">>
                    \o ReSubSqrtOfFrom(s, e, mapping)
            ELSE <<s[i]>> \o ReSubSqrtOfFrom(s, i + 1, mapping)

Contains(s, item) == \E i \in 1..Len(s) : s[i] = item

\* one round of the loop over the safe functions: the i-th function
RewriteSafeFunction(expr, i) ==
    LET func_name == parser.safe_functions[i].name
        func_mapping == parser.safe_functions[i].mapping
    IN IF ~Contains(expr, func_name) THEN expr
       ELSE IF func_name = "factorial"
       THEN ReSubCall(func_name, func_mapping, <<"int", "(">>, <<")">>, expr)
       ELSE IF func_name = "sqrt"
       THEN ReSubSqrtOfFrom(
                ReSubCall(func_name, func_mapping, <<>>, <<>>, expr),
                1, func_mapping)
       ELSE ReSubCall(func_name, func_mapping, <<>>, <<>>, expr)

RECURSIVE RewriteSafeFunctions(_, _)
RewriteSafeFunctions(expr, i) ==
    IF i > Len(parser.safe_functions) THEN expr
    ELSE RewriteSafeFunctions(RewriteSafeFunction(expr, i), i + 1)

(***************************************************************************)
(* eval(expr, safe_dict), as _evaluate_expression calls it: Python's       *)
(* expression language over the items of the model's texts.  First the     *)
(* tokens, then a parser that evaluates as it parses.                      *)
(***************************************************************************)
\* values that are not numbers
Callable(name) == [t |-> name, n |-> 0, d |-> 1]
ModuleVal == [t |-> "module", n |-> 0, d |-> 1]
TupleVal == [t |-> "tuple", n |-> 0, d |-> 1]           \* the empty tuple ()
EllipsisVal == [t |-> "ellipsis", n |-> 0, d |-> 1]

\* safe_dict: "__builtins__" is empty, so these are all the names there are
SafeDictNames == {"abs", "round", "max", "min", "sum", "pow"}

safe_dict(name) ==
    IF name = "math" THEN Result(ModuleVal)
    ELSE IF name \in SafeDictNames THEN Result(Callable(name))
    ELSE Raised("NameError", "name is not defined")

\* the keyword of the texts that an expression can hold, and the others
OperatorKeywords == {"or", "not"}
Keywords == OperatorKeywords \cup {"import"}

NumTok(v) == [k |-> "num", s |-> "", v |-> v]
NameTok(name) == [k |-> "name", s |-> name, v |-> IntV(0)]
OpTok(o) == [k |-> "op", s |-> o, v |-> IntV(0)]
ErrorTok == [k |-> "error", s |-> "", v |-> IntV(0)]
UnmodelledTok == [k |-> "unmodelled", s |-> "", v |-> IntV(0)]
EndTok == [k |-> "end", s |-> "", v |-> IntV(0)]

RECURSIVE SkipWordChars(_, _)
SkipWordChars(s, i) ==
    IF i <= Len(s) /\ IsWordChar(s[i]) THEN SkipWordChars(s, i + 1) ELSE i

\* the number the digits s[i..j-1] write after acc, Sat once above Cap
RECURSIVE DigitsVal(_, _, _, _)
DigitsVal(s, i, j, acc) ==
    IF i >= j THEN acc
    ELSE DigitsVal(s, i + 1, j,
                   IF acc > Cap THEN Sat ELSE SatMul(acc, 10) + DigitVal(s[i]))

RECURSIVE Pow10(_)
Pow10(m) == IF m = 0 THEN 1 ELSE SatMul(10, Pow10(m - 1))

\* The number literal from position i: digits s[i..j-1], then, if s[j] is a
\* point, the digits s[j+1..k-1].  A word character right after it, or a
\* leading zero on a decimal integer, is a syntax error.
NumberTok(s, i, j, k) ==
    LET point == k > j
        whole == DigitsVal(s, i, j, 0)
        after == IF k + 1 <= Len(s) THEN s[k + 1] ELSE " "
    IN IF k <= Len(s) /\ s[k] \in OperatorKeywords /\ ~IsWordChar(after)
       THEN UnmodelledTok    \* "5or": read as 5 or, with a warning, or refused
       ELSE IF k <= Len(s) /\ IsWordChar(s[k]) THEN ErrorTok
       ELSE IF ~point
       THEN (IF j - i > 1 /\ s[i] = "0" /\ whole # 0 THEN ErrorTok
             ELSE NumTok(IntOrBig(whole)))
       ELSE LET scale == Pow10(k - j - 1)
                digits == DigitsVal(s, j + 1, k, whole)
            IN NumTok(IF digits > Cap \/ scale > Cap THEN Unmodelled
                      ELSE Flt(digits, scale))

RECURSIVE Tokenize(_, _)
Tokenize(s, i) ==
    IF i > Len(s) THEN <<>>
    ELSE LET c == s[i]
             next == IF i + 1 <= Len(s) THEN s[i + 1] ELSE " "
         IN IF IsSpace(c) THEN Tokenize(s, i + 1)
            ELSE IF IsDigit(c) \/ (c = "." /\ IsDigit(next))
            THEN LET j == SkipDigits(s, i)
                     k == IF j <= Len(s) /\ s[j] = "." THEN SkipDigits(s, j + 1) ELSE j
                 IN <<NumberTok(s, i, j, k)>> \o Tokenize(s, k)
            ELSE IF IsWordChar(c)
            THEN LET j == SkipWordChars(s, i)
                 IN <<NameTok(IF j = i + 1 THEN c ELSE "?")>> \o Tokenize(s, j)
            ELSE IF MatchAt(s, i, <<".", ".", ".">>)
            THEN <<OpTok("...")>> \o Tokenize(s, i + 3)
            ELSE IF c = "*" /\ next = "*" THEN <<OpTok("**")>> \o Tokenize(s, i + 2)
            ELSE IF c = "/" /\ next = "/" THEN <<OpTok("//")>> \o Tokenize(s, i + 2)
            ELSE IF c \in {"?", "!"} THEN <<ErrorTok>> \o Tokenize(s, i + 1)
            ELSE <<OpTok(c)>> \o Tokenize(s, i + 1)

Tok(toks, p) == IF p >= 1 /\ p <= Len(toks) THEN toks[p] ELSE EndTok
IsOp(t, o) == t.k = "op" /\ t.s = o

\* bool(v)
Truthy(v) == IF IsNumber(v) THEN ~IsZero(v) ELSE v.t # "tuple"

\* a // b for b # 0
NumFloorDiv(a, b) ==
    IF IsUnmodelled(a) \/ IsUnmodelled(b) \/ BigWithFloat(a, b) THEN Unmodelled
    ELSE IF IsNaN(a) \/ IsNaN(b) \/ IsInf(a) THEN NaN
    ELSE IF IsBig(a) \/ IsBig(b) \/ IsInf(b) THEN Unmodelled
    ELSE LET x == SatMul(a.n, b.d)
             y == SatMul(b.n, a.d)
             q == IF y > 0 THEN x \div y ELSE (-x) \div (-y)
         IN IF Abs(x) > Cap \/ Abs(y) > Cap THEN Unmodelled
            ELSE IF EitherFloat(a, b) THEN Flt(q, 1)
            ELSE IntV(q)

DivisionByZero == Raised("ZeroDivisionError", "division by zero")
UnsupportedOperand == Raised("TypeError", "unsupported operand type(s)")

BinaryOp(o, a, b) ==
    IF IsNumber(a) /\ IsNumber(b)
    THEN CASE o = "+" -> Result(NumAdd(a, b))
           [] o = "-" -> Result(NumSub(a, b))
           [] o = "*" -> Result(NumMul(a, b))
           [] o = "/" -> IF IsZero(b) THEN DivisionByZero ELSE Result(NumDiv(a, b))
           [] o = "//" -> IF IsZero(b) THEN DivisionByZero ELSE Result(NumFloorDiv(a, b))
           [] o = "%" -> IF IsZero(b) THEN DivisionByZero ELSE Result(NumMod(a, b))
           [] o = "**" -> NumPow(a, b)
    ELSE IF o = "+" /\ a.t = "tuple" /\ b.t = "tuple" THEN Result(TupleVal)
    ELSE IF o = "*" /\ ((a.t = "tuple" /\ b.t = "int") \/ (a.t = "int" /\ b.t = "tuple"))
    THEN Result(TupleVal)
    ELSE UnsupportedOperand

UnaryOp(o, a) ==
    IF ~IsNumber(a) THEN Raised("TypeError", "bad operand type for unary")
    ELSE IF o = "-" THEN Result(NumNeg(a))
    ELSE IF a.t = "bool" THEN Result(IntV(a.n))
    ELSE Result(a)

\* a < b and a > b: a truth value
Compare(o, a, b) ==
    IF a.t = "tuple" /\ b.t = "tuple" THEN Result(BoolV(FALSE))
    ELSE IF ~IsNumber(a) \/ ~IsNumber(b)
    THEN Raised("TypeError", "not supported between instances")
    ELSE IF IsUnmodelled(a) \/ IsUnmodelled(b) THEN Result(Unmodelled)
    ELSE IF IsNaN(a) \/ IsNaN(b) THEN Result(BoolV(FALSE))
    ELSE IF ~IsFinite(a) \/ ~IsFinite(b) THEN Result(Unmodelled)
    ELSE IF SatMul(a.n, b.d) = SatMul(b.n, a.d) THEN Result(BoolV(FALSE))
    ELSE Result(BoolV((SatMul(a.n, b.d) < SatMul(b.n, a.d)) <=> (o = "<")))

\* getattr(v, name), for the names of the model's texts
Attribute(v, name) ==
    IF v.t = "module"
    THEN CASE name = "sqrt" -> Result(Callable("math.sqrt"))
           [] name = "factorial" -> Result(Callable("math.factorial"))
           [] name = "nan" -> Result(NaN)
           [] name = "inf" -> Result(Inf(1))
           [] name = "pow" -> Result(Callable("math.pow"))
           [] name = "floor" -> Result(Callable("math.floor"))
           [] OTHER -> Raised("AttributeError", "module 'math' has no attribute")
    ELSE Raised("AttributeError", "object has no attribute")

\* the largest integer at most n/d
Floor(v) == IF v.n >= 0 THEN v.n \div v.d ELSE -((-v.n + v.d - 1) \div v.d)

\* round(x) of a float n/d to the nearest integer, a tie to the even one
RoundHalfEven(v) ==
    LET fl == Floor(v)
        twice == 2 * (v.n - fl * v.d)
    IN IF twice < v.d THEN fl
       ELSE IF twice > v.d THEN fl + 1
       ELSE IF fl % 2 = 0 THEN fl ELSE fl + 1

NotCallable == Raised("TypeError", "object is not callable")
BadArguments == Raised("TypeError", "bad arguments")

\* a < b for finite numbers whose squares are within Cap
NumLess(a, b) == a.n * b.d < b.n * a.d

\* the first largest (smallest) of the numbers, as max and min choose it
RECURSIVE Extreme(_, _, _)
Extreme(largest, best, rest) ==
    IF Len(rest) = 0 THEN best
    ELSE LET x == Head(rest)
             better == IF largest THEN NumLess(best, x) ELSE NumLess(x, best)
         IN Extreme(largest, IF better THEN x ELSE best, Tail(rest))

\* pow(x, y, z): x ** y % z
PowMod(x, y, z) ==
    IF IsFloat(x) \/ IsFloat(y) \/ IsFloat(z)
    THEN Raised("TypeError", "pow() 3rd argument not allowed unless all arguments are integers")
    ELSE IF IsZero(z) THEN Raised("ValueError", "pow() 3rd argument cannot be 0")
    ELSE IF IsBig(x) \/ IsBig(y) \/ IsBig(z) \/ y.n < 0 THEN Result(Unmodelled)
    ELSE IF Abs(IntPowCapped(x.n, y.n)) > Cap THEN Result(Unmodelled)
    ELSE Result(NumMod(IntV(IntPowCapped(x.n, y.n)), IntV(z.n)))

\* f(x, y, ...) with two arguments or more
CallSeveral(f, arguments) ==
    IF f.t \in {"abs", "math.sqrt", "math.factorial", "math.floor"} THEN BadArguments
    ELSE IF \E i \in 1..Len(arguments) :
                \/ ~IsFinite(arguments[i])
                \/ SatMul(arguments[i].n, arguments[i].n) > Cap
                \/ SatMul(arguments[i].d, arguments[i].d) > Cap
    THEN Result(Unmodelled)
    ELSE IF f.t = "pow"
    THEN (IF Len(arguments) = 2 THEN NumPow(arguments[1], arguments[2])
          ELSE IF Len(arguments) = 3
          THEN PowMod(arguments[1], arguments[2], arguments[3])
          ELSE BadArguments)
    ELSE IF f.t \in {"max", "min"}
    THEN Result(Extreme(f.t = "max", arguments[1], Tail(arguments)))
    ELSE Result(Unmodelled)

\* f(*arguments) for the values eval can hold
CallValue(f, arguments) ==
    LET x == arguments[1]
    IN IF f.t \notin SafeDictNames
                    \cup {"math.sqrt", "math.factorial", "math.pow", "math.floor"}
       THEN NotCallable
       ELSE IF Len(arguments) >= 2 THEN CallSeveral(f, arguments)
       ELSE IF Len(arguments) # 1 THEN BadArguments
       ELSE IF f.t = "abs"
       THEN (IF IsNumber(x) THEN Result(NumAbs(x)) ELSE BadArguments)
       ELSE IF f.t = "math.sqrt"
       THEN (IF ~IsNumber(x) THEN BadArguments
             ELSE IF IsNegative(x) THEN Raised("ValueError", "math domain error")
             ELSE IF IsBig(x) \/ x.d > Cap THEN Result(Unmodelled)
             ELSE IF IsFinite(x) /\ ~(IsSquare(x.n) /\ IsSquare(x.d))
             THEN Result(Unmodelled)    \* irrational: no arithmetic on it here
             ELSE Result(NumSqrt(x)))
       ELSE IF f.t = "math.factorial"
       THEN (IF x.t \notin {"int", "bool"} THEN BadArguments
             ELSE IF IsNegative(x)
             THEN Raised("ValueError", "factorial() not defined for negative values")
             ELSE IF IsBig(x) THEN Result(Unmodelled)
             ELSE Result(NumFactorial(x.n)))
       ELSE IF f.t = "math.floor"
       THEN (IF ~IsNumber(x) THEN BadArguments
             ELSE IF IsNaN(x) THEN Raised("ValueError", "cannot convert float NaN to integer")
             ELSE IF IsInf(x)
             THEN Raised("OverflowError", "cannot convert float infinity to integer")
             ELSE IF IsBig(x) THEN Result(x)
             ELSE IF x.d > Cap THEN Result(Unmodelled)
             ELSE Result(IntV(Floor(x))))
       ELSE IF f.t = "round"
       THEN (IF ~IsNumber(x) THEN BadArguments
             ELSE IF IsNaN(x) THEN Raised("ValueError", "cannot convert float NaN to integer")
             ELSE IF IsInf(x)
             THEN Raised("OverflowError", "cannot convert float infinity to integer")
             ELSE IF x.t = "bool" THEN Result(IntV(x.n))
             ELSE IF ~IsFloat(x) THEN Result(x)
             ELSE IF x.d > Cap THEN Result(IntV(0))
             ELSE Result(IntV(RoundHalfEven(x))))
       ELSE IF f.t \in {"max", "min"}
       THEN (IF x.t = "tuple" THEN Raised("ValueError", "arg is an empty sequence")
             ELSE BadArguments)
       ELSE IF f.t = "sum"
       THEN (IF x.t = "tuple" THEN Result(IntV(0)) ELSE BadArguments)
       ELSE BadArguments

\* f(x), f(*x) for star = 1 and f(**x) for star = 2
CallStar(f, star, x) ==
    IF star = 0 THEN CallValue(f, <<x>>)
    ELSE IF star = 1 /\ x.t = "tuple" THEN CallValue(f, <<>>)
    ELSE Raised("TypeError", "argument after * must be an iterable")

\* What parsing from a position gives: the position after the expression
\* (0 for a syntax error), its value, and the exception its evaluation
\* raised, "" for none ("Unmodelled" where the model has no value for it).
\* Python compiles before it runs: parsing goes on after an exception, and
\* past an operand that is not evaluated (live = FALSE).
Parsed(p, v) == [p |-> p, v |-> v, e |-> "", m |-> ""]

\* the arguments of a call, as far as they are evaluated
ArgList(values) == [t |-> "args", n |-> 0, d |-> 1, list |-> values]
SyntaxErr == [p |-> 0, v |-> IntV(0), e |-> "SyntaxError", m |-> "invalid syntax"]

Evaluated(p, outcome) ==
    IF IsRaised(outcome)
    THEN [p |-> p, v |-> IntV(0), e |-> outcome.raise, m |-> outcome.msg]
    ELSE IF IsUnmodelled(outcome.result)
    THEN [p |-> p, v |-> IntV(0), e |-> "Unmodelled", m |-> ""]
    ELSE Parsed(p, outcome.result)

\* l o r, for the parsed operands l and r
Combine(o, l, r, live) ==
    IF r.p = 0 THEN r
    ELSE IF ~live \/ l.e # "" THEN [l EXCEPT !.p = r.p]
    ELSE IF r.e # "" THEN r
    ELSE Evaluated(r.p, BinaryOp(o, l.v, r.v))

At(p) == Parsed(p, IntV(0))

\* One rule of the grammar, from the position l.p; for the rules that go on
\* after a left operand ("trailers", "term_rest", "arith_rest", "or_rest"),
\* l is that operand as parsed.
\*   atom:    a number, a name, ..., () or ( expression )
\*   primary: an atom, then attribute references and calls
\*   power:   primary ** factor
\*   factor:  + factor, - factor, or a power
\*   term:    factors joined by * / // %
\*   arith:   terms joined by + -
\*   compare: x < y, x > y
\*   not:     not x, or a comparison
\*   or:      x or y, where y is evaluated only when x is false
RECURSIVE Parse(_, _, _, _)
Parse(rule, toks, l, live) ==
    LET t == Tok(toks, l.p)
        a == Tok(toks, l.p + 1)
        run == live /\ l.e = ""
    IN CASE rule = "atom" ->
              IF t.k = "num" THEN Evaluated(l.p + 1, Result(t.v))
              ELSE IF t.k = "name"
              THEN (IF t.s \in Keywords THEN SyntaxErr
                    ELSE IF ~live THEN At(l.p + 1)
                    ELSE Evaluated(l.p + 1, safe_dict(t.s)))
              ELSE IF IsOp(t, "...") THEN Parsed(l.p + 1, EllipsisVal)
              ELSE IF IsOp(t, "(")
              THEN (IF IsOp(a, ")") THEN Parsed(l.p + 2, TupleVal)
                    ELSE LET r == Parse("or", toks, At(l.p + 1), live)
                         IN IF r.p = 0 \/ ~IsOp(Tok(toks, r.p), ")") THEN SyntaxErr
                            ELSE [r EXCEPT !.p = r.p + 1])
              ELSE SyntaxErr
         [] rule = "primary" ->
              Parse("trailers", toks, Parse("atom", toks, l, live), live)
         [] rule = "trailers" ->
              IF l.p = 0 THEN l
              ELSE IF IsOp(t, ".")
              THEN (IF a.k # "name" \/ a.s \in Keywords THEN SyntaxErr
                    ELSE Parse("trailers", toks,
                               IF run THEN Evaluated(l.p + 2, Attribute(l.v, a.s))
                               ELSE [l EXCEPT !.p = l.p + 2],
                               live))
              ELSE IF IsOp(t, "(")
              THEN (IF IsOp(a, ")")
                    THEN Parse("trailers", toks,
                               IF run THEN Evaluated(l.p + 2, CallValue(l.v, <<>>))
                               ELSE [l EXCEPT !.p = l.p + 2],
                               live)
                    ELSE LET star == IF IsOp(a, "*") THEN 1
                                     ELSE IF IsOp(a, "**") THEN 2 ELSE 0
                             r == IF star = 0
                                  THEN Parse("args", toks,
                                             Parsed(l.p + 1, ArgList(<<>>)), run)
                                  ELSE Parse("or", toks, At(l.p + 2), run)
                         IN IF r.p = 0 \/ ~IsOp(Tok(toks, r.p), ")") THEN SyntaxErr
                            ELSE Parse("trailers", toks,
                                       IF ~run THEN [l EXCEPT !.p = r.p + 1]
                                       ELSE IF r.e # "" THEN [r EXCEPT !.p = r.p + 1]
                                       ELSE IF star = 0
                                       THEN Evaluated(r.p + 1, CallValue(l.v, r.v.list))
                                       ELSE Evaluated(r.p + 1, CallStar(l.v, star, r.v)),
                                       live))
              ELSE l
         [] rule = "args" ->
              \* l.p: where the next argument begins; l.v: those before it
              LET r == Parse("or", toks, At(l.p), run)
                  acc == IF ~run THEN [l EXCEPT !.p = r.p]
                         ELSE IF r.e # "" THEN [r EXCEPT !.v = l.v]
                         ELSE [l EXCEPT !.p = r.p,
                                        !.v = ArgList(Append(l.v.list, r.v))]
              IN IF r.p = 0 THEN SyntaxErr
                 ELSE IF IsOp(Tok(toks, r.p), ",")
                 THEN (IF IsOp(Tok(toks, r.p + 1), ")")
                       THEN [acc EXCEPT !.p = r.p + 1]
                       ELSE Parse("args", toks, [acc EXCEPT !.p = r.p + 1], live))
                 ELSE acc
         [] rule = "power" ->
              LET b == Parse("primary", toks, l, live)
              IN IF b.p # 0 /\ IsOp(Tok(toks, b.p), "**")
                 THEN Combine("**", b,
                              Parse("factor", toks, At(b.p + 1), live /\ b.e = ""), live)
                 ELSE b
         [] rule = "factor" ->
              IF IsOp(t, "+") \/ IsOp(t, "-")
              THEN LET r == Parse("factor", toks, At(l.p + 1), live)
                   IN IF r.p = 0 \/ ~live \/ r.e # "" THEN r
                      ELSE Evaluated(r.p, UnaryOp(t.s, r.v))
              ELSE Parse("power", toks, l, live)
         [] rule = "term" ->
              Parse("term_rest", toks, Parse("factor", toks, l, live), live)
         [] rule = "term_rest" ->
              IF l.p # 0 /\ t.k = "op" /\ t.s \in {"*", "/", "//", "%"}
              THEN Parse("term_rest", toks,
                         Combine(t.s, l, Parse("factor", toks, At(l.p + 1), run), live),
                         live)
              ELSE l
         [] rule = "arith" ->
              Parse("arith_rest", toks, Parse("term", toks, l, live), live)
         [] rule = "arith_rest" ->
              IF l.p # 0 /\ t.k = "op" /\ t.s \in {"+", "-"}
              THEN Parse("arith_rest", toks,
                         Combine(t.s, l, Parse("term", toks, At(l.p + 1), run), live),
                         live)
              ELSE l
         [] rule = "compare" ->
              LET x == Parse("arith", toks, l, live)
                  o == Tok(toks, x.p)
                  y == Parse("arith", toks, At(x.p + 1), live /\ x.e = "")
              IN IF x.p # 0 /\ o.k = "op" /\ o.s \in {"<", ">"}
                 THEN (IF y.p = 0 THEN y
                       ELSE IF ~live \/ x.e # "" THEN [x EXCEPT !.p = y.p]
                       ELSE IF y.e # "" THEN y
                       ELSE Evaluated(y.p, Compare(o.s, x.v, y.v)))
                 ELSE x
         [] rule = "not" ->
              IF t.k = "name" /\ t.s = "not"
              THEN LET r == Parse("not", toks, At(l.p + 1), live)
                   IN IF r.p = 0 \/ ~live \/ r.e # "" THEN r
                      ELSE Parsed(r.p, BoolV(~Truthy(r.v)))
              ELSE Parse("compare", toks, l, live)
         [] rule = "or" ->
              Parse("or_rest", toks, Parse("not", toks, l, live), live)
         [] rule = "or_rest" ->
              LET need == run /\ ~Truthy(l.v)
                  r == Parse("not", toks, At(l.p + 1), need)
              IN IF l.p # 0 /\ t.k = "name" /\ t.s = "or"
                 THEN (IF r.p = 0 THEN r
                       ELSE Parse("or_rest", toks,
                                  IF need THEN r ELSE [l EXCEPT !.p = r.p], live))
                 ELSE l

\* what eval gives for the tokens toks, parsed as r
EvalOutcome(toks, r) ==
    IF \E i \in 1..Len(toks) : toks[i].k = "unmodelled" THEN Result(Unmodelled)
    \* two signs of comparison: a chain, a shift, <> : not modelled
    ELSE IF \E i, j \in 1..Len(toks) :
                i < j /\ toks[i].k = "op" /\ toks[j].k = "op"
                      /\ toks[i].s \in {"<", ">"} /\ toks[j].s \in {"<", ">"}
    THEN Result(Unmodelled)
    ELSE IF \E i \in 1..Len(toks) : toks[i].k = "error"
    THEN Raised("SyntaxError", "invalid syntax")
    \* a comma outside the arguments of a call: a tuple, not modelled
    ELSE IF r.p # Len(toks) + 1 /\ \E i \in 1..Len(toks) : IsOp(toks[i], ",")
    THEN Result(Unmodelled)
    ELSE IF r.p # Len(toks) + 1 THEN Raised("SyntaxError", "invalid syntax")
    ELSE IF r.e = "Unmodelled" THEN Result(Unmodelled)
    ELSE IF r.e # "" THEN Raised(r.e, r.m)
    ELSE Result(r.v)

EvalTokens(toks) == EvalOutcome(toks, Parse("or", toks, At(1), TRUE))

\* eval(expr, safe_dict): the value, or the exception raised
PyEval(expr) == EvalTokens(Tokenize(expr, 1))

(***************************************************************************)
(* MathExpressionParser._evaluate_expression and parse_and_evaluate        *)
(***************************************************************************)
\* the except clauses of the try block around eval
HandleRaised(evaluated) ==
    IF evaluated.raise = "ZeroDivisionError"
    THEN Raised("ValueError", "Division by zero")
    ELSE IF evaluated.raise = "OverflowError"
    THEN Raised("ValueError", "Mathematical overflow")
    ELSE IF evaluated.raise = "ValueError" THEN evaluated
    ELSE Raised("ValueError", "Invalid mathematical expression")

\* the try block around eval: the result's type and size, and the handlers
CheckEvaluated(evaluated) ==
    IF IsRaised(evaluated) THEN HandleRaised(evaluated)
    ELSE IF IsUnmodelled(evaluated.result) THEN evaluated
    \* a float below 1/Cap may be 0.0, an integer, or not
    ELSE IF IsFloat(evaluated.result) /\ evaluated.result.d > Cap THEN Result(Unmodelled)
    ELSE IF ~IsNumber(evaluated.result) THEN Raised("ValueError", "Invalid result type")
    \* formatting an integer of more than 4300 digits into the message
    \* raises a ValueError of its own: the message is not modelled then
    ELSE IF AbsGreater(evaluated.result, CALC_MAX_VALUE)
    THEN Raised("ValueError", "Result too large")
    ELSE IF IsFloat(evaluated.result) /\ IsInteger(evaluated.result)
    THEN Result(IntV(evaluated.result.n))
    ELSE evaluated

EvalChecked(expr) == CheckEvaluated(PyEval(expr))

\* {"error": f"Could not parse expression: {e}"}
CouldNotParse(msg) == [error |-> msg, prefix |-> "Could not parse expression: "]

_evaluate_expression(expr) ==
    IF IsDangerous(expr) THEN Raised("ValueError", "Potentially dangerous expression")
    ELSE EvalChecked(RewriteSafeFunctions(expr, 1))

\* No handler: what _evaluate_expression raises goes on to the caller.
NotCaught(result) == result

\* except Exception as e: return {"error": f"Could not parse expression: {e}"}
CatchAsCouldNotParse(result) ==
    IF IsRaised(result) THEN CouldNotParse(result.msg) ELSE result

parse_and_evaluate(expression) ==
    CatchAsCouldNotParse(
        _evaluate_expression(
            _convert_to_math_expression(_normalize_expression(expression))))

(***************************************************************************)
(* CalculatorEngine.parse_expression (services/calculator.py)              *)
(***************************************************************************)
\* A JSON string is [text |-> items]; str.lower() of anything else raises
\* AttributeError, inside parse_and_evaluate's try.
Text(s) == [text |-> s]

parse_expression(expression) ==
    CatchAsError(
        IF "text" \in DOMAIN expression THEN parse_and_evaluate(expression.text)
        ELSE CouldNotParse("object has no attribute 'lower'"))

(***************************************************************************)
(* call_calculator_method (routes/mcp.py): the tool's arguments are a JSON *)
(* object, here a function from its keys.  A JSON array is [list |-> seq]  *)
(* and any other JSON value [scalar |-> v].                                *)
(***************************************************************************)
List(l) == [list |-> l]
Scalar(v) == [scalar |-> v]
EmptyDict == [k \in {} |-> 0]

\* arguments.get(key, default)
Get(arguments, key, default) ==
    IF key \in DOMAIN arguments THEN arguments[key] ELSE default

\* arguments.get(key): a number where one is expected; None when missing
GetScalar(arguments, key) ==
    LET x == Get(arguments, key, Scalar(NoneVal))
    IN IF "scalar" \in DOMAIN x THEN x.scalar ELSE StrVal

\* f(*numbers): unpacking anything but an array raises TypeError
IsIterable(x) == "list" \in DOMAIN x

NotIterable == Raised("TypeError", "after * must be an iterable")

\* The branch of each tool: it unpacks the arguments and calls the engine.
tool_add(arguments) ==
    LET numbers == Get(arguments, "numbers", List(<<>>))
    IN IF IsIterable(numbers) THEN add(numbers.list) ELSE NotIterable

tool_subtract(arguments) ==
    LET minuend == GetScalar(arguments, "minuend")
        subtrahends == Get(arguments, "subtrahends", List(<<>>))
    IN IF IsIterable(subtrahends) THEN subtract(minuend, subtrahends.list)
       ELSE NotIterable

tool_multiply(arguments) ==
    LET numbers == Get(arguments, "numbers", List(<<>>))
    IN IF IsIterable(numbers) THEN multiply(numbers.list) ELSE NotIterable

tool_divide(arguments) ==
    LET dividend == GetScalar(arguments, "dividend")
        divisors == Get(arguments, "divisors", List(<<>>))
    IN IF IsIterable(divisors) THEN divide(dividend, divisors.list)
       ELSE NotIterable

tool_power(arguments) ==
    power(GetScalar(arguments, "base"), GetScalar(arguments, "exponent"))

tool_sqrt(arguments) == sqrt(GetScalar(arguments, "number"))

tool_factorial(arguments) == factorial(GetScalar(arguments, "number"))

tool_modulo(arguments) ==
    modulo(GetScalar(arguments, "dividend"), GetScalar(arguments, "divisor"))

tool_absolute(arguments) == absolute(GetScalar(arguments, "number"))

tool_parse_expression(arguments) ==
    parse_expression(Get(arguments, "expression", Text(<<>>)))

\* the if/elif chain on the tool's name
call_calculator_method_body(tool_name, arguments) ==
    CASE tool_name = "add" -> tool_add(arguments)
      [] tool_name = "subtract" -> tool_subtract(arguments)
      [] tool_name = "multiply" -> tool_multiply(arguments)
      [] tool_name = "divide" -> tool_divide(arguments)
      [] tool_name = "power" -> tool_power(arguments)
      [] tool_name = "sqrt" -> tool_sqrt(arguments)
      [] tool_name = "factorial" -> tool_factorial(arguments)
      [] tool_name = "modulo" -> tool_modulo(arguments)
      [] tool_name = "absolute" -> tool_absolute(arguments)
      [] tool_name = "parse_expression" -> tool_parse_expression(arguments)
      [] OTHER -> Error("Unknown tool")

call_calculator_method(tool_name, arguments) ==
    CatchAsError(call_calculator_method_body(tool_name, arguments))

(***************************************************************************)
(* handle_mcp_request (routes/mcp.py): the body of a POST /mcp is a JSON   *)
(* value.  An object is a function from its keys, a string [string |-> s], *)
(* and arrays, numbers and null are as in the arguments of a tool.         *)
(***************************************************************************)
JsonString(s) == [string |-> s]
Absent == [absent |-> TRUE]

\* the object of the members that are given
JsonObject(members) ==
    LET keys == {k \in DOMAIN members : members[k] # Absent}
    IN [k \in keys |-> members[k]]

\* a dict: it has .get
IsDict(x) == DOMAIN x \cap {"string", "scalar", "list", "text"} = {}

\* The names of the registry (its schemas are not modelled).
MCP_TOOLS ==
    {"add", "subtract", "multiply", "divide", "power", "sqrt", "factorial",
     "modulo", "absolute", "parse_expression"}

\* jsonify({"jsonrpc": "2.0", "error": {...}, "id": id}), status
JsonRpcError(status, code, message, id) ==
    [status |-> status, error |-> [code |-> code, message |-> message], id |-> id]

\* jsonify({"jsonrpc": "2.0", "result": result, "id": id})
JsonRpcResult(result, id) == [status |-> 200, result |-> result, id |-> id]

\* what the handler does: it returns a response, or it calls a tool
Responds(response) == [response |-> response]
Calls(tool_name, arguments, request_id) ==
    [tool_name |-> tool_name, arguments |-> arguments, request_id |-> request_id]
IsResponse(handled) == "response" \in DOMAIN handled

\* except Exception as e: the error -32603 with data.get('id')
InternalError(msg, data) ==
    Responds(JsonRpcError(500, -32603, <<"Internal error: ", msg>>,
                          Get(data, "id", Scalar(NoneVal))))

\* tool_name not in MCP_TOOLS: a list or a dict cannot be hashed (TypeError)
Unhashable(x) == IsIterable(x) \/ IsDict(x)

\* A check that takes every string for the name of a tool.
AnyName(tool_name) == "string" \in DOMAIN tool_name

InRegistry(tool_name) ==
    /\ "string" \in DOMAIN tool_name
    /\ tool_name.string \in MCP_TOOLS

handle_mcp_request(data) ==
    IF data = EmptyDict
    THEN Responds(JsonRpcError(400, -32700, <<"Parse error">>, Scalar(NoneVal)))
    ELSE LET method == Get(data, "method", Scalar(NoneVal))
             params == Get(data, "params", EmptyDict)
             request_id == Get(data, "id", Scalar(NoneVal))
         IN IF method = JsonString("tools/list")
            THEN Responds(JsonRpcResult([tools |-> MCP_TOOLS], request_id))
            ELSE IF method = JsonString("tools/call")
            THEN IF ~IsDict(params)
                 THEN InternalError("object has no attribute 'get'", data)
                 ELSE LET tool_name == Get(params, "name", Scalar(NoneVal))
                          arguments == Get(params, "arguments", EmptyDict)
                      IN IF Unhashable(tool_name)
                         THEN InternalError("unhashable type", data)
                         ELSE IF ~InRegistry(tool_name)
                         THEN Responds(JsonRpcError(404, -32601,
                                  <<"Tool not found: ", tool_name>>, request_id))
                         ELSE Calls(tool_name.string, arguments, request_id)
            ELSE Responds(JsonRpcError(404, -32601,
                     <<"Method not found: ", method>>, request_id))

(***************************************************************************)
(* The requests of the model.                                              *)
(***************************************************************************)
MaxThreads == 2
Threads == 1..MaxThreads

\* a thread with no request
Idle ==
    [pc |-> "idle", data |-> EmptyDict, called |-> "none",
     expression |-> Text(<<>>), response |-> ReturnedNone]

Request(method, params, id) ==
    JsonObject([method |-> method, params |-> params, id |-> id])

ToolsCall(name, arguments, id) ==
    Request(JsonString("tools/call"),
            JsonObject([name |-> name, arguments |-> arguments]), id)

RequestId == Scalar(IntV(7))

\* tools that are in the registry, with arguments that succeed and that fail
RegisteredCalls ==
    {ToolsCall(JsonString("add"), [numbers |-> List(<<IntV(1), IntV(2)>>)], RequestId),
     ToolsCall(JsonString("add"), [numbers |-> List(<<IntV(CALC_MAX_VALUE), IntV(1)>>)], Absent),
     ToolsCall(JsonString("divide"),
               [dividend |-> Scalar(IntV(1)), divisors |-> List(<<IntV(0)>>)], RequestId),
     ToolsCall(JsonString("parse_expression"), Absent, RequestId),
     ToolsCall(JsonString("parse_expression"), [expression |-> Scalar(IntV(5))], RequestId)}
        \cup {ToolsCall(JsonString("parse_expression"), [expression |-> Text(e)], RequestId) :
                 e \in {<<"what", " ", "is", " ", "5", " ", "plus", " ", "3", "?">>,
                        <<"find", " ", "2", " ", "/", " ", "0">>}}

\* names that are not in the registry: other strings, null, a number, none
UnregisteredNames ==
    {JsonString("unknown_tool"), JsonString("Add"), JsonString(""),
     Scalar(NoneVal), Scalar(IntV(1)), Absent}

UnregisteredCalls ==
    {ToolsCall(name, Absent, RequestId) : name \in UnregisteredNames}
        \cup {ToolsCall(JsonString("unknown_tool"),
                        [numbers |-> List(<<IntV(1), IntV(2)>>)], id) :
                 id \in {JsonString("a"), Absent}}

\* methods other than tools/list and tools/call: other strings, null, a
\* number, none
OtherMethods ==
    {JsonString("initialize"), JsonString("tools/Call"), Scalar(NoneVal),
     Scalar(IntV(1)), Absent}

OtherMethodRequests ==
    {Request(method, Absent, RequestId) : method \in OtherMethods}
        \cup {Request(JsonString("initialize"), Scalar(NoneVal), JsonString("a")),
              Request(JsonString("add"),
                      JsonObject([name |-> JsonString("add"), arguments |-> Absent]),
                      Absent)}

\* a tools/call whose params are no object, or whose name cannot be hashed
BrokenCalls ==
    {Request(JsonString("tools/call"), Scalar(NoneVal), RequestId),
     ToolsCall(List(<<JsonString("add")>>), Absent, RequestId)}

Bodies ==
    {EmptyDict, Request(JsonString("tools/list"), Absent, RequestId)}
        \cup RegisteredCalls \cup UnregisteredCalls \cup OtherMethodRequests
        \cup BrokenCalls

(***************************************************************************)
(* The calls of the model.                                                 *)
(***************************************************************************)
\* Operands: the integers around 0 and around the bound, two floats, nan,
\* inf and a value that is no number.
OperandValues ==
    {IntV(-(CALC_MAX_VALUE + 1)), IntV(-CALC_MAX_VALUE), IntV(-1), IntV(0),
     IntV(1), IntV(2), IntV(CALC_MAX_VALUE), IntV(CALC_MAX_VALUE + 1),
     Flt(1, 2), Flt(3, 2), NaN, Inf(1), StrVal}

OperandLists(n) == UNION {[1..k -> OperandValues] : k \in 0..n}

\* A number argument: an operand, or none given.
ScalarArguments(values) == {Scalar(v) : v \in values}

NumbersArguments ==
    {[numbers |-> List(l)] : l \in OperandLists(MaxOperands)}
        \cup {EmptyDict, [numbers |-> Scalar(IntV(1))]}

LeadingArguments(first, rest) ==
    {[a \in {first, rest} |-> IF a = first THEN Scalar(x[1]) ELSE List(x[2])] :
        x \in OperandValues \X OperandLists(MaxOperands - 1)}
        \cup {[a \in {rest} |-> List(l)] : l \in OperandLists(1)}
        \cup {[a \in {first} |-> Scalar(v)] : v \in OperandValues}
        \cup {[a \in {first, rest} |-> Scalar(IntV(1))]}

PairArguments(first, second, firsts, seconds) ==
    {[a \in {first, second} |-> IF a = first THEN Scalar(x[1]) ELSE Scalar(x[2])] :
        x \in firsts \X seconds}
        \cup {[a \in {first} |-> Scalar(v)] : v \in firsts}
        \cup {[a \in {second} |-> Scalar(v)] : v \in seconds}

\* exponents around the limit of 1000 as well
Exponents ==
    OperandValues \cup {IntV(-1000), IntV(-2), IntV(3), IntV(1000)}

\* factorial's operands: every integer around its domain 0..170
FactorialOperands ==
    OperandValues \cup {IntV(n) : n \in -2..172} \cup {Flt(5, 1), BoolV(TRUE)}

NumberArguments(values) ==
    {[number |-> Scalar(v)] : v \in values} \cup {EmptyDict}

(***************************************************************************)
(* The expressions of the model: every text of at most MaxItems items over *)
(* each of three alphabets, the sentences "<prefix><a> <operation> <b>     *)
(* <suffix>", and some longer texts.                                       *)
(***************************************************************************)
TextsOver(alphabet) == UNION {[1..k -> alphabet] : k \in 0..MaxItems}

SecurityAlphabet == {"__", "import", "exec", "(", " ", "5", "squared", "+"}
NameAlphabet == {"math", ".", "nan", "or", "hello", "abs", " ", "0"}
ArithmeticAlphabet == {"5", "0", "2", "/", "%", "*", "-", " "}

\* str(n) for an integer n
RECURSIVE StrNat(_)
StrNat(n) ==
    LET digit == CHOOSE c \in Digits : DigitVal(c) = n % 10
    IN IF n < 10 THEN <<digit>> ELSE Append(StrNat(n \div 10), digit)

Str(n) == IF n < 0 THEN <<"-">> \o StrNat(-n) ELSE StrNat(n)

SentenceNumbers ==
    {0, 1, 2, 5, -5, CALC_MAX_VALUE \div 2, CALC_MAX_VALUE \div 2 + 1,
     CALC_MAX_VALUE, -CALC_MAX_VALUE}

SentenceOperands ==
    {Str(n) : n \in SentenceNumbers} \cup {<<"five">>, <<"zero">>, <<"hello">>}

SentenceOperations ==
    {<<"plus">>, <<"Plus">>, <<"minus">>, <<"times">>, <<"divided", " ", "by">>,
     ToThePowerOf, <<"/">>, <<"%">>, <<"or">>}

SentencePrefixes == {<<>>, <<"find", " ">>}
SentenceSuffixes == {<<>>, <<"?">>}

Sentence(prefix, a, operation, b, suffix) ==
    prefix \o a \o <<" ">> \o operation \o <<" ">> \o b \o suffix

Sentences ==
    {Sentence(x[1], x[2], x[3], x[4], x[5]) :
        x \in SentencePrefixes \X SentenceOperands \X SentenceOperations
                \X SentenceOperands \X SentenceSuffixes}

\* calls of the functions, by their names and through the math module
FunctionCalls ==
    {<<"sqrt", "(", "4", ")">>, <<"math", ".", "sqrt", "(", "4", ")">>,
     <<"factorial", "(", "5", ")">>, <<"math", ".", "factorial", "(", "5", ")">>,
     <<"abs", "(", "-", "5", ")">>, <<"round", "(", "2", ".", "5", ")">>,
     <<"max", "(", "5", ")">>, <<"pow", "(", "2", ")">>,
     <<"max", "(", "5", ",", " ", "2", ")">>, <<"min", "(", "5", ",", "2", ")">>,
     <<"pow", "(", "2", ",", " ", "5", ")">>,
     <<"pow", "(", "5", ",", " ", "2", ",", " ", "3", ")">>,
     <<"pow", "(", "5", ",", " ", "2", ",", " ", "0", ")">>,
     <<"pow", "(", "0", ",", " ", "-", "1", ")">>,
     <<"square", " ", "root", " ", "of", " ", "4">>,
     <<"math", ".", "floor", "(", "2", ".", "5", ")">>,
     <<"math", ".", "floor", "(", "math", ".", "nan", ")">>,
     <<"math", ".", "inf">>, <<"hello", " ", "world">>}

\* dangerous patterns inside longer texts
DangerousInputs ==
    {<<"__", "5", "squared", "__">>, <<"__", "import", "__", "(", ")">>,
     <<"what", " ", "is", " ", "__", "import", "__">>,
     <<"exec", " ", "(", "5", ")">>, <<"EXEC", "(", "5", ")", "?">>,
     <<"5", " ", "+", " ", "import", " ", "5">>,
     <<"5", " ", "import", " ", "+", "5">>}

\* leading phrases: stacked, after punctuation, in the middle; punctuation
\* next to blanks
Phrasings ==
    {<<"what", " ", "is", " ", "what", " ", "is", " ", "5">>,
     <<"find", " ", "what", " ", "is", " ", "5">>,
     <<"calculate", " ", "find", " ", "5">>,
     <<"?", "what", " ", "is", " ", "5">>,
     <<"what", " ", " ", "is", " ", "5">>,
     <<" ", "Compute", " ", "5", "!">>,
     <<"5", " ", "?">>,
     <<"5", " ", "!", " ", "+", " ", "2">>,
     <<"5", " ", "plus", " ", "find", " ", "5">>,
     <<"5", " ", "+", " ", "what", " ", "is", " ", " ", "2", "?">>}

\* the numbers of the phrases 'square root of N' and 'factorial of N'
PhraseNumbers == {0, 1, 2, 4, 5, 6, 7, 25, CALC_MAX_VALUE}

SquareRootOf(n) == <<"square", " ", "root", " ", "of", " ">> \o StrNat(n)
FactorialOf(n) == <<"factorial", " ", "of", " ">> \o StrNat(n)

FunctionPhrases ==
    {SquareRootOf(n) : n \in PhraseNumbers} \cup {FactorialOf(n) : n \in PhraseNumbers}
        \cup {<<"sqrt", " ", "of", " ", "2", "5">>, <<"sqrt", "(", "2", "5", ")">>,
              <<"what", " ", "is", " ", "factorial", "(", "5", ")", "?">>}

\* the numbers N of 'N squared' and 'N cubed', in digits and in words
ModifierNumbers == {0, 1, 2, 3, 5, 10, 31, 32}
ModifierWords == {<<"zero">>, <<"two">>, <<"five">>, <<"ten">>}

Squared(number) == number \o <<" ", "squared">>
Cubed(number) == number \o <<" ", "cubed">>

PostfixModifiers ==
    {Squared(StrNat(n)) : n \in ModifierNumbers}
        \cup {Cubed(StrNat(n)) : n \in ModifierNumbers}
        \cup {Squared(w) : w \in ModifierWords} \cup {Cubed(w) : w \in ModifierWords}
        \cup {<<"5", " ", "squared", " ", "plus", " ", "3", " ", "cubed">>,
              <<"2", " ", "times", " ", "5", " ", "squared">>,
              <<"2", " ", "plus", " ", "three", " ", "squared">>,
              <<"1", "0", " ", "minus", " ", "2", " ", "cubed", "?">>,
              <<"2", " ", "to", " ", "the", " ", "power", " ", "of", " ", "3",
                " ", "squared">>,
              <<"5", "squared">>, <<"5", " ", " ", "cubed">>}

\* 'a o1 b o2 c' for every two binary operators, as symbols and as words
PrecedenceOperands == {2, 3, 4}
PrecedenceOperators == {"+", "-", "*", "/", "%", "**"}

OperatorSymbol(o) == IF o = "**" THEN <<"*", "*">> ELSE <<o>>
OperatorWord(o) ==
    CASE o = "+" -> <<"plus">>
      [] o = "-" -> <<"minus">>
      [] o = "*" -> <<"times">>
      [] o = "/" -> <<"divided", " ", "by">>
      [] o = "**" -> ToThePowerOf
      [] OTHER -> <<o>>

Chain(a, w1, b, w2, c) ==
    StrNat(a) \o <<" ">> \o w1 \o <<" ">> \o StrNat(b) \o <<" ">> \o w2
        \o <<" ">> \o StrNat(c)

Chains ==
    {Chain(x[1], OperatorSymbol(x[2]), x[3], OperatorSymbol(x[4]), x[5]) :
        x \in PrecedenceOperands \X PrecedenceOperators \X PrecedenceOperands
                \X PrecedenceOperators \X PrecedenceOperands}
    \cup
    {Chain(x[1], OperatorWord(x[2]), x[3], OperatorWord(x[4]), x[5]) :
        x \in PrecedenceOperands \X PrecedenceOperators \X PrecedenceOperands
                \X PrecedenceOperators \X PrecedenceOperands}
    \cup {<<"(", "2", " ", "+", " ", "3", ")", " ", "*", " ", "4">>,
          <<"four", " ", "times", " ", "2", " ", "plus", " ", "4">>,
          <<"2", " ", "*", " ", "(", "3", " ", "+", " ", "4", ")">>}

\* the symbols that are binary operators only ('-' is the negation too)
BinaryOnly == {"+", "*", "/", "%"}

TwoOperators(o1, o2) == <<"2", " ", o1, " ", o2, " ", "3">>
LeadingOperator(o) == <<o, " ", "5">>

Malformed ==
    {TwoOperators(x[1], x[2]) : x \in BinaryOnly \X BinaryOnly}
        \cup {LeadingOperator(o) : o \in BinaryOnly}
        \cup {<<"2", " ", "+">>, <<"(", "2", " ", "+", " ", "3">>, <<"2", " ", "3">>}

\* expressions whose value is no integer and no float: truth values, the
\* empty tuple, the ellipsis, a function, the module
NonNumeric ==
    {<<"5", " ", ">", " ", "3">>, <<"5", " ", "<", " ", "3">>, <<"2", ">", "2">>,
     <<"what", " ", "is", " ", "5", " ", ">", " ", "3", "?">>,
     <<"five", " ", ">", " ", "two", " ", "plus", " ", "two">>,
     <<"5", " ", ">", " ", "3", " ", "+", " ", "1">>,
     <<"(", "5", " ", ">", " ", "3", ")", " ", "+", " ", "1">>,
     <<"not", " ", "0">>, <<"not", " ", "5">>, <<"not", " ", "not", " ", "5">>,
     <<"not", " ", "5", " ", ">", " ", "3">>, <<"not">>, <<"5", " ", "not", " ", "3">>,
     <<"0", " ", "or", " ", "5", " ", ">", " ", "3">>,
     <<"5", " ", ">", " ", "3", " ", "or", " ", "hello">>,
     <<"1", " ", "<", " ", "2", " ", "<", " ", "3">>,
     <<"5", " ", ">">>, <<">", " ", "5">>, <<"(", ")", " ", ">", " ", "5">>,
     <<"math", ".", "nan", " ", "<", " ", "5">>, <<"0", ".", "5", " ", "<", " ", "1">>,
     <<"5", " ", ">", " ", "hello">>, <<"2", " ", "/", " ", "0", " ", ">", " ", "1">>,
     <<"-", "(", "5", " ", ">", " ", "3", ")">>, <<"abs", "(", "5", " ", ">", " ", "3", ")">>,
     <<"(", ")">>, <<".", ".", ".">>, <<"abs">>, <<"math">>, <<"math", ".", "sqrt">>,
     <<"(", "abs", ")">>, <<"0", " ", "or", " ", "(", ")">>}

\* a base raised to an exponent around the limit of 1000, in the three
\* ways of writing it
PowerBases == {0, 1, 2, -1}
PowerExponents == {1000, 1001, -1001}
ToThePower(b, e) == Str(b) \o <<" ">> \o ToThePowerOf \o <<" ">> \o Str(e)
StarStar(b, e) == Str(b) \o <<" ", "*", "*", " ">> \o Str(e)
PowCall(b, e) == <<"pow", "(">> \o Str(b) \o <<",", " ">> \o Str(e) \o <<")">>
Exponentiations ==
    UNION {{ToThePower(x[1], x[2]), StarStar(x[1], x[2]), PowCall(x[1], x[2])} :
               x \in PowerBases \X PowerExponents}

\* factorial of a number that is no integer, alone and inside a larger
\* expression
NonIntegers == {<<"3", ".", "5">>, <<"0", ".", "5">>}
FactorialCall(x) == <<"factorial", "(">> \o x \o <<")">>
FactorialsOfNonIntegers ==
    UNION {{FactorialCall(x),
            <<"what", " ", "is", " ">> \o FactorialCall(x) \o <<"?">>,
            FactorialCall(x) \o <<" ", "+", " ", "1">>,
            <<"2", " ", "times", " ">> \o FactorialCall(x),
            FactorialCall(x) \o <<" ", "or", " ", "1">>,
            <<"0", " ", "or", " ">> \o FactorialCall(x),
            <<"1", " ", "or", " ">> \o FactorialCall(x)} : x \in NonIntegers}

Expressions ==
    FactorialsOfNonIntegers \cup Exponentiations \cup NonNumeric \cup FunctionPhrases \cup Malformed \cup Chains \cup PostfixModifiers \cup TextsOver(SecurityAlphabet) \cup TextsOver(NameAlphabet)
        \cup TextsOver(ArithmeticAlphabet) \cup Sentences \cup FunctionCalls
        \cup DangerousInputs \cup Phrasings

ExpressionArguments ==
    {[expression |-> Text(e)] : e \in Expressions}
        \cup {EmptyDict, [expression |-> Scalar(IntV(5))]}

\* A value of the model: not one the arithmetic above could not keep.
Modelled(r) == ~(IsResult(r) /\ IsUnmodelled(r.result))

\* the call is made and r is its answer
Answer(tool_name, arguments, r) ==
    /\ op = "none"
    /\ Modelled(r)
    /\ op' = tool_name
    /\ args' = arguments
    /\ ret' = r
    /\ UNCHANGED <<parser, requests, elsewhere>>

\* The call of a tool: its branch runs inside call_calculator_method's try.
Call(tool_name, arguments, branch) ==
    Answer(tool_name, arguments, CatchAsError(branch))

CallAdd ==
    /\ op = "none"
    /\ \E a \in NumbersArguments : Call("add", a, tool_add(a))
CallSubtract ==
    /\ op = "none"
    /\ \E a \in LeadingArguments("minuend", "subtrahends") : Call("subtract", a, tool_subtract(a))
CallMultiply ==
    /\ op = "none"
    /\ \E a \in NumbersArguments : Call("multiply", a, tool_multiply(a))
CallDivide ==
    /\ op = "none"
    /\ \E a \in LeadingArguments("dividend", "divisors") : Call("divide", a, tool_divide(a))
CallPower ==
    /\ op = "none"
    /\ \E a \in PairArguments("base", "exponent", OperandValues, Exponents) :
        Call("power", a, tool_power(a))
CallSqrt ==
    /\ op = "none"
    /\ \E a \in NumberArguments(OperandValues \cup {IntV(4), Flt(9, 4)}) : Call("sqrt", a, tool_sqrt(a))
CallFactorial ==
    /\ op = "none"
    /\ \E a \in NumberArguments(FactorialOperands) : Call("factorial", a, tool_factorial(a))
CallModulo ==
    /\ op = "none"
    /\ \E a \in PairArguments("dividend", "divisor", OperandValues, OperandValues) :
        Call("modulo", a, tool_modulo(a))
CallAbsolute ==
    /\ op = "none"
    /\ \E a \in NumberArguments(OperandValues) : Call("absolute", a, tool_absolute(a))
CallParseExpression ==
    /\ op = "none"
    /\ \E a \in ExpressionArguments : Call("parse_expression", a, tool_parse_expression(a))

\* The caller has the answer; the engine, which keeps nothing of a call,
\* is ready for the next one.
Return ==
    /\ op # "none"
    /\ op' = "none"
    /\ args' = EmptyDict
    /\ ret' = ReturnedNone
    /\ UNCHANGED <<parser, requests, elsewhere>>

\* the connections and the POST /sse/mcp requests of the SSE transport
MaxConnections == 2
MaxPosts == 2
Connections == 1..MaxConnections
Posts == 1..MaxPosts

\* a connection that has not been made: the locals of its event_stream
NotConnected ==
    [pc |-> "none", client_id |-> "", client_data |-> 0, iterated |-> 0,
     index |-> 0, emitted |-> <<>>]

\* a request that has not been posted: the locals of its sse_mcp_request
NotPosted ==
    [pc |-> "none", request |-> EmptyDict, client_id |-> "",
     response_data |-> ReturnedNone, list |-> 0, reply |-> ReturnedNone]

\* the locals of the execution, and what it has done so far: the patterns
\* scanned without a match, the functions looked at, whether eval has run
NotEvaluating ==
    [pc |-> "none", given |-> <<>>, expr |-> <<>>, scanned |-> 0, rewritten |-> 0,
     evaluated |-> FALSE, result |-> ReturnedNone]

\* The engine is made, and no request has come.
Init ==
    /\ op = "none"
    /\ args = EmptyDict
    /\ ret = ReturnedNone
    /\ parser = MathExpressionParser
    /\ requests = [t \in Threads |-> Idle]
    /\ evaluation = NotEvaluating
    /\ sse_clients = EmptyDict
    /\ active_connections = {}
    /\ dicts = <<>>
    /\ lists = <<>>
    /\ streams = [s \in Connections |-> NotConnected]
    /\ posts = [r \in Posts |-> NotPosted]
    /\ answered = <<>>

Next ==
    \/ CallAdd
    \/ CallSubtract
    \/ CallMultiply
    \/ CallDivide
    \/ CallPower
    \/ CallSqrt
    \/ CallFactorial
    \/ CallModulo
    \/ CallAbsolute
    \/ CallParseExpression
    \/ Return

Spec == Init /\ [][Next]_vars

(***************************************************************************)
(* The server.  Every POST /mcp is handled by a thread of its own, and all *)
(* threads call the one engine: a request is posted, handle_mcp_request    *)
(* answers it or calls the tool, parse_and_evaluate runs its three steps   *)
(* on its local variable, and the response is sent.  The steps of the      *)
(* threads interleave in any order.                                        *)
(***************************************************************************)
\* handle_mcp_request up to the call of the tool
Post(t) ==
    /\ requests[t].pc = "idle"
    /\ \E data \in Bodies :
           requests' = [requests EXCEPT ![t] = [Idle EXCEPT !.pc = "handle", !.data = data]]
    /\ UNCHANGED <<op, args, ret, parser, elsewhere>>

\* the request is answered without a call of the engine
HandleRequest(t) ==
    LET handled == handle_mcp_request(requests[t].data)
    IN /\ requests[t].pc = "handle"
       /\ IsResponse(handled)
       /\ requests' = [requests EXCEPT ![t].pc = "done",
                                       ![t].response = handled.response]
       /\ UNCHANGED <<op, args, ret, parser, elsewhere>>

\* result = call_calculator_method(tool_name, arguments), for an operation
\* of the calculator: it touches nothing but its arguments
CallTool(t) ==
    LET handled == handle_mcp_request(requests[t].data)
    IN /\ requests[t].pc = "handle"
       /\ ~IsResponse(handled)
       /\ handled.tool_name # "parse_expression"
       /\ requests' =
              [requests EXCEPT
                  ![t].pc = "done",
                  ![t].called = handled.tool_name,
                  ![t].response =
                      JsonRpcResult(
                          call_calculator_method(handled.tool_name, handled.arguments),
                          handled.request_id)]
       /\ UNCHANGED <<op, args, ret, parser, elsewhere>>

\* call_calculator_method -> calculator.parse_expression ->
\* parser.parse_and_evaluate(expression)
ParseAndEvaluate(t) ==
    LET handled == handle_mcp_request(requests[t].data)
    IN /\ requests[t].pc = "handle"
       /\ ~IsResponse(handled)
       /\ handled.tool_name = "parse_expression"
       /\ requests' =
              [requests EXCEPT
                  ![t].pc = "normalize",
                  ![t].called = handled.tool_name,
                  ![t].expression = Get(handled.arguments, "expression", Text(<<>>))]
       /\ UNCHANGED <<op, args, ret, parser, elsewhere>>

\* the tool has returned r: handle_mcp_request wraps it
Returns(t, r) ==
    requests' =
        [requests EXCEPT
            ![t].pc = "done",
            ![t].response = JsonRpcResult(CatchAsError(r), Get(requests[t].data, "id", Scalar(NoneVal)))]

\* A normalization that uses the phrases up: it empties the parser's list.
NormalizeUsingUp(t) ==
    /\ requests[t].pc = "normalize"
    /\ IF "text" \in DOMAIN requests[t].expression
       THEN requests' =
                [requests EXCEPT
                    ![t].pc = "convert",
                    ![t].expression = Text(_normalize_expression(requests[t].expression.text))]
       ELSE Returns(t, CouldNotParse("object has no attribute 'lower'"))
    /\ parser' = [parser EXCEPT !.normalization_config.prefixes = <<>>]
    /\ UNCHANGED <<op, args, ret, elsewhere>>

\* normalized = self._normalize_expression(expression)
Normalize(t) ==
    /\ requests[t].pc = "normalize"
    /\ IF "text" \in DOMAIN requests[t].expression
       THEN requests' =
                [requests EXCEPT
                    ![t].pc = "convert",
                    ![t].expression = Text(_normalize_expression(requests[t].expression.text))]
       ELSE Returns(t, CouldNotParse("object has no attribute 'lower'"))
    /\ UNCHANGED <<op, args, ret, parser, elsewhere>>

\* math_expr = self._convert_to_math_expression(normalized)
Convert(t) ==
    /\ requests[t].pc = "convert"
    /\ requests' =
           [requests EXCEPT
               ![t].pc = "evaluate",
               ![t].expression = Text(_convert_to_math_expression(requests[t].expression.text))]
    /\ UNCHANGED <<op, args, ret, parser, elsewhere>>

\* result = self._evaluate_expression(math_expr), and the way back
Evaluate(t) ==
    /\ requests[t].pc = "evaluate"
    /\ Returns(t, CatchAsCouldNotParse(_evaluate_expression(requests[t].expression.text)))
    /\ UNCHANGED <<op, args, ret, parser, elsewhere>>

\* the response is sent and the thread is free for the next request
Send(t) ==
    /\ requests[t].pc = "done"
    /\ requests' = [requests EXCEPT ![t] = Idle]
    /\ UNCHANGED <<op, args, ret, parser, elsewhere>>

ServerNext ==
    \E t \in Threads :
        \/ Post(t)
        \/ HandleRequest(t)
        \/ CallTool(t)
        \/ ParseAndEvaluate(t)
        \/ Normalize(t)
        \/ Convert(t)
        \/ Evaluate(t)
        \/ Send(t)

ServerSpec == Init /\ [][ServerNext]_vars

(***************************************************************************)
(* _evaluate_expression, statement by statement: the loop over the         *)
(* dangerous patterns, the loop over the safe functions, eval with its     *)
(* checks.  An execution is entered with a canonical expression, as        *)
(* parse_and_evaluate passes it.                                           *)
(***************************************************************************)
\* the canonical expressions of the model's texts of functions and of
\* dangerous inputs
Canonicals ==
    {_convert_to_math_expression(_normalize_expression(e)) :
        e \in FunctionCalls \cup DangerousInputs \cup FunctionPhrases \cup Phrasings}
        \cup {<<"eval", "(", "2", "+", "3", ")">>, <<"open", "(", "5", ")">>,
              <<"input", " ", "(", ")">>, <<"import", " ", "math">>,
              <<"sqrt", "(", "4", ")", "+", "eval", "(", "1", ")">>,
              <<"factorial", "(", "__", "a", "__", ")">>}

EnterEvaluate ==
    /\ evaluation.pc = "none"
    /\ \E expr \in Canonicals :
           evaluation' = [NotEvaluating EXCEPT !.pc = "scan", !.given = expr, !.expr = expr]
    /\ UNCHANGED <<op, args, ret, parser, requests, sse>>

\* An iteration that goes on to the next pattern although this one matches.
ScanOnly ==
    /\ evaluation.pc = "scan"
    /\ evaluation.scanned < Len(parser.security_config.dangerous_patterns)
    /\ evaluation' = [evaluation EXCEPT !.scanned = @ + 1]
    /\ UNCHANGED <<op, args, ret, parser, requests, sse>>

\* for pattern in dangerous_patterns: if re.search(pattern, expr): raise
ScanPattern ==
    /\ evaluation.pc = "scan"
    /\ evaluation.scanned < Len(parser.security_config.dangerous_patterns)
    /\ LET pattern == parser.security_config.dangerous_patterns[evaluation.scanned + 1]
       IN IF ReSearch(pattern, evaluation.expr)
          THEN evaluation' =
                   [evaluation EXCEPT
                       !.pc = "returned",
                       !.result = Raised("ValueError", "Potentially dangerous expression")]
          ELSE evaluation' = [evaluation EXCEPT !.scanned = @ + 1]
    /\ UNCHANGED <<op, args, ret, parser, requests, sse>>

\* the loop over the patterns is over
ScanDone ==
    /\ evaluation.pc = "scan"
    /\ evaluation.scanned = Len(parser.security_config.dangerous_patterns)
    /\ evaluation' = [evaluation EXCEPT !.pc = "rewrite"]
    /\ UNCHANGED <<op, args, ret, parser, requests, sse>>

\* for func_name, func_mapping in self.safe_functions.items(): one round
RewriteFunction ==
    /\ evaluation.pc = "rewrite"
    /\ evaluation.rewritten < Len(parser.safe_functions)
    /\ evaluation' =
           [evaluation EXCEPT
               !.rewritten = @ + 1,
               !.expr = RewriteSafeFunction(@, evaluation.rewritten + 1)]
    /\ UNCHANGED <<op, args, ret, parser, requests, sse>>

\* result = eval(expr, safe_dict), its checks and its except clauses
Eval ==
    /\ evaluation.pc = "rewrite"
    /\ evaluation.rewritten = Len(parser.safe_functions)
    /\ evaluation' =
           [evaluation EXCEPT
               !.pc = "returned",
               !.evaluated = TRUE,
               !.result = EvalChecked(evaluation.expr)]
    /\ UNCHANGED <<op, args, ret, parser, requests, sse>>

LeaveEvaluate ==
    /\ evaluation.pc = "returned"
    /\ evaluation' = NotEvaluating
    /\ UNCHANGED <<op, args, ret, parser, requests, sse>>

EvaluateNext ==
    \/ EnterEvaluate
    \/ ScanPattern
    \/ ScanDone
    \/ RewriteFunction
    \/ Eval
    \/ LeaveEvaluate

EvaluateSpec == Init /\ [][EvaluateNext]_vars

(***************************************************************************)
(* The parser under other configurations.  MathExpressionParser.__init__   *)
(* takes the operation words from the configuration, a mapping it visits   *)
(* in the order of the file; a parser made with a mapping then converts a  *)
(* text.  The mappings list one to MaxWords of the operation phrases of    *)
(* several words and of the single words they are made of, in every order. *)
(***************************************************************************)
MaxWords == 3

OperationKeys ==
    {[word |-> ToThePowerOf, symbol |-> <<"*", "*">>],
     [word |-> SquareRoot, symbol |-> <<"sqrt">>],
     [word |-> <<"divided", " ", "by">>, symbol |-> <<"/">>],
     [word |-> <<"of">>, symbol |-> <<"*">>],
     [word |-> <<"power">>, symbol |-> <<"*", "*">>],
     [word |-> <<"root">>, symbol |-> <<"sqrt">>],
     [word |-> <<"divided">>, symbol |-> <<"/">>]}

Keys(words) == {words[i] : i \in 1..Len(words)}

\* the mappings: no key twice
Mappings ==
    UNION {{words \in [1..n -> OperationKeys] : Cardinality(Keys(words)) = n} :
               n \in 1..MaxWords}

\* the same mapping in each of its orders
Orders(words) ==
    {other \in [1..Len(words) -> OperationKeys] : Keys(other) = Keys(words)}

PhraseTexts ==
    {<<"2", " ", "to", " ", "the", " ", "power", " ", "of", " ", "3">>,
     <<"two", " ", "to", " ", "the", " ", "power", " ", "of", " ", "three">>,
     <<"square", " ", "root", " ", "of", " ", "4">>,
     <<"4", " ", "divided", " ", "by", " ", "2">>,
     <<"five", " ", "divided", " ", "by", " ", "square", " ", "root", " ", "of", " ", "4">>}

\* self.operation_words = parser_config.get('operation_words', {})
__init__(config) ==
    /\ op = "none"
    /\ op' = "__init__"
    /\ parser' = [parser EXCEPT !.operation_words = config]
    /\ UNCHANGED <<args, ret, requests, elsewhere>>

\* the parser converts a text
ConvertText(expr) ==
    /\ op = "__init__"
    /\ op' = "_convert_to_math_expression"
    /\ args' = expr
    /\ ret' = _convert_to_math_expression(expr)
    /\ UNCHANGED <<parser, requests, elsewhere>>

ConfigNext ==
    \/ \E config \in Mappings : __init__(config)
    \/ \E expr \in PhraseTexts : ConvertText(expr)

ConfigSpec == Init /\ [][ConfigNext]_vars

(***************************************************************************)
(* The legacy parser of app.py: MathExpressionParser._evaluate_expression  *)
(* and _is_safe_expression.  Here a text is a sequence of characters.  The *)
(* execution is modelled up to the call of eval: what is kept of it is the *)
(* string that eval is given, not the value of that string.                *)
(***************************************************************************)
Letters ==
    {"a", "c", "e", "i", "l", "m", "n", "o", "p", "r", "s", "t", "u", "v", "w", "x",
     "E", "V", "A", "L"}

\* str.lower() of a character, for re.IGNORECASE
LowerChar(c) ==
    CASE c = "E" -> "e" [] c = "V" -> "v" [] c = "A" -> "a" [] c = "L" -> "l"
      [] OTHER -> c

\* \w
IsWordCharacter(c) == c \in Letters \cup Digits \cup {"_"}

\* the characters that [^0-9+\-*/().e\s] does not match
MathCharacters == Digits \cup {"+", "-", "*", "/", "(", ")", ".", "e", " "}

\* A removal that removes nothing.
RemoveNothing(expr) == expr

\* re.sub(r'[^0-9+\-*/().e\s]', '', expr)
RemoveNonMath(expr) ==
    LET Kept(c) == c \in MathCharacters IN SelectSeq(expr, Kept)

\* the end of \d+(?:\.\d+)? at i: the position after it, i when there is
\* no digit at i
SkipNumber(s, i) ==
    LET j == SkipDigits(s, i)
    IN IF j > i /\ j < Len(s) /\ s[j] = "." /\ IsDigit(s[j + 1])
       THEN SkipDigits(s, j + 1)
       ELSE j

\* (\d+(?:\.\d+)?)\*\*(\d+(?:\.\d+)?) at i: the digits as far as they
\* go, with the fraction or, when '**' does not follow it, without
PowerAt(s, i) ==
    LET digits == SkipDigits(s, i)
        number == SkipNumber(s, i)
        Stars(j) == j + 1 <= Len(s) /\ s[j] = "*" /\ s[j + 1] = "*"
                        /\ j + 2 <= Len(s) /\ IsDigit(s[j + 2])
        first == IF Stars(number) THEN number ELSE digits
    IN IF digits > i /\ Stars(first)
       THEN [found |-> TRUE, stars |-> first, end |-> SkipNumber(s, first + 2)]
       ELSE [found |-> FALSE]

\* re.sub(..., r'pow(\1,\2)', expr): leftmost matches, not overlapping
RECURSIVE ReplacePowers(_, _)
ReplacePowers(s, i) ==
    IF i > Len(s) THEN <<>>
    ELSE LET m == PowerAt(s, i)
         IN IF m.found
            THEN <<"p", "o", "w", "(">> \o SubSeq(s, i, m.stars - 1) \o <<",">>
                     \o SubSeq(s, m.stars + 2, m.end - 1) \o <<")">>
                     \o ReplacePowers(s, m.end)
            ELSE <<s[i]>> \o ReplacePowers(s, i + 1)

\* the word at i, in any case of its letters
WordAt(s, i, word) ==
    /\ i + Len(word) - 1 <= Len(s)
    /\ \A k \in 1..Len(word) : LowerChar(s[i + k - 1]) = word[k]

\* re.search(r'__\w+__', expr, re.IGNORECASE)
SearchDunderIn(s) ==
    \E i \in 1..Len(s) : \E j \in (i + 3)..(Len(s) - 1) :
        /\ s[i] = "_" /\ s[i + 1] = "_" /\ s[j] = "_" /\ s[j + 1] = "_"
        /\ \A k \in i..(j + 1) : IsWordCharacter(s[k])

\* re.search(word + r'\s+', expr, re.IGNORECASE)
SearchWordSpace(word, s) ==
    \E i \in 1..Len(s) :
        WordAt(s, i, word) /\ i + Len(word) <= Len(s) /\ IsSpace(s[i + Len(word)])

\* re.search(word + r'\s*\(', expr, re.IGNORECASE)
SearchWordParen(word, s) ==
    \E i \in 1..Len(s) :
        /\ WordAt(s, i, word)
        /\ LET j == SkipSpaces(s, i + Len(word)) IN j <= Len(s) /\ s[j] = "("

_is_safe_expression(expr) ==
    ~ \/ SearchDunderIn(expr)
      \/ SearchWordSpace(<<"i", "m", "p", "o", "r", "t">>, expr)
      \/ SearchWordParen(<<"e", "x", "e", "c">>, expr)
      \/ SearchWordParen(<<"e", "v", "a", "l">>, expr)
      \/ SearchWordParen(<<"o", "p", "e", "n">>, expr)
      \/ SearchWordParen(<<"i", "n", "p", "u", "t">>, expr)

\* raise ValueError("Unsafe mathematical expression"), caught by the
\* method's own except and raised again
Unsafe ==
    Raised("ValueError", "Invalid mathematical expression: Unsafe mathematical expression")

\* eval is called with this string
EvalGiven(expr) == [eval |-> expr]

app_evaluate_expression(expr) ==
    LET math_only == RemoveNonMath(expr)
        with_pow == ReplacePowers(math_only, 1)
    IN IF ~_is_safe_expression(with_pow) THEN Unsafe ELSE EvalGiven(with_pow)

\* the longest text over the alphabet of characters
MaxChars == 3

Characters == {"e", "E", "o", "p", "n", "_", "(", " ", "2", "*", "."}

Spelled ==
    {<<"_", "_", "i", "m", "p", "o", "r", "t", "_", "_", "(", "o", "s", ")">>,
     <<"_", "_", "a", "_", "_">>,
     <<"i", "m", "p", "o", "r", "t", " ", "o", "s">>,
     <<"e", "x", "e", "c", "(", "1", ")">>,
     <<"e", "v", "a", "l", "(", "2", "*", "*", "2", ")">>,
     <<"E", "V", "A", "L", " ", "(", "1", ")">>,
     <<"o", "p", "e", "n", "(", "1", ")">>,
     <<"i", "n", "p", "u", "t", " ", "(", ")">>,
     <<"o", "2", "*", "*", "2", "e", "n", "(">>,
     <<"2", "*", "*", "2", "e", "n", "(">>,
     <<"2", "*", "*", "3", "e", "x", "e", "c", "(">>,
     <<"2", " ", "*", "*", " ", "3">>,
     <<"1", ".", "5", "*", "*", "2">>,
     <<"1", ".", "5", ".", "2", "*", "*", "3">>,
     <<"1", "2", "*", "*", "3", "*", "*", "4">>,
     <<"2", "*", "*", "3", ".">>,
     <<"2", "*", "*", "3", ".", "5", ".", "6", "*", "*", "7">>,
     <<"2", ".", "*", "*", "3">>,
     <<"2", "+", "3">>}

LegacyTexts ==
    UNION {[1..n -> Characters] : n \in 0..MaxChars} \cup Spelled

LegacyEvaluate ==
    /\ op = "none"
    /\ \E expr \in LegacyTexts :
           /\ op' = "app._evaluate_expression"
           /\ args' = expr
           /\ ret' = app_evaluate_expression(expr)
    /\ UNCHANGED <<parser, requests, elsewhere>>

LegacyNext ==
    \/ LegacyEvaluate
    \/ Return

LegacySpec == Init /\ [][LegacyNext]_vars

(***************************************************************************)
(* The SSE transport (routes/sse.py).  sse_clients and active_connections  *)
(* are globals of the module, shared by all threads.  A dict or a list is  *)
(* an object: sse_clients holds the address of a client's dict, the dict   *)
(* the address of its list 'pending_responses', and a thread that has      *)
(* loaded an address keeps it, whatever is stored in its place afterwards. *)
(* Every GET /sse/connect and every POST /sse/mcp runs in a thread of its   *)
(* own; the threads take turns between any two accesses of shared state.   *)
(***************************************************************************)
ClientIds == {"a", "b"}

\* d[key] = value, and del d[key]
SetItem(d, key, value) ==
    [k \in DOMAIN d \cup {key} |-> IF k = key THEN value ELSE d[k]]
DelItem(d, key) == [k \in DOMAIN d \ {key} |-> d[k]]

\* the truth of a JSON value: None, the empty string and {} are false
JsonTruthy(x) ==
    /\ x # Scalar(NoneVal)
    /\ x # JsonString("")
    /\ x # EmptyDict

\* jsonify({"error": message}), status, and jsonify({"status": "queued", ...}), 202
SseError(status, message) == [status |-> status, error |-> message]
Queued(request_id) == [status |-> 202, queued |-> request_id]

\* the handler goes on to queue response_data for client_id
ToQueue(client_id, response_data) ==
    [client_id |-> client_id, response_data |-> response_data]
IsReply(x) == "status" \in DOMAIN x

\* the name of a tool as call_calculator_method compares it
NameOf(tool_name) ==
    IF "string" \in DOMAIN tool_name THEN tool_name.string ELSE "none"

\* sse_mcp_request up to the test 'client_id in sse_clients': the reply it
\* returns before the test, or what it is about to queue
sse_mcp_request(request) ==
    LET data == request.data
    IN IF ~JsonTruthy(data) THEN SseError(400, "Invalid JSON data")
       ELSE LET header == Get(request.headers, "X-Client-ID", Scalar(NoneVal))
                client_id == IF JsonTruthy(header) THEN header
                             ELSE Get(data, "client_id", Scalar(NoneVal))
                method == Get(data, "method", Scalar(NoneVal))
                params == Get(data, "params", EmptyDict)
                request_id == Get(data, "id", Scalar(NoneVal))
            IN IF ~JsonTruthy(client_id) THEN SseError(400, "Client ID required")
               ELSE IF method = JsonString("tools/call")
               THEN IF ~IsDict(params)
                    THEN SseError(500, "object has no attribute 'get'")
                    ELSE ToQueue(client_id.string,
                                 [result |-> call_calculator_method(
                                                 NameOf(Get(params, "name", Scalar(NoneVal))),
                                                 Get(params, "arguments", EmptyDict)),
                                  id |-> request_id])
               ELSE IF method = JsonString("tools/list")
               THEN ToQueue(client_id.string,
                            [result |-> [tools |-> MCP_TOOLS], id |-> request_id])
               ELSE ToQueue(client_id.string,
                            [error |-> [code |-> -32601, message |-> <<"Method not found">>],
                             id |-> request_id])

\* the requests: headers and a JSON body
SseRequest(header, client_id, method, params, id) ==
    [headers |-> JsonObject([k \in {"X-Client-ID"} |-> header]),
     data |-> JsonObject([client_id |-> client_id, method |-> method,
                          params |-> params, id |-> id])]

AddOneAndTwo ==
    JsonObject([name |-> JsonString("add"),
                arguments |-> [numbers |-> List(<<IntV(1), IntV(2)>>)]])

SseRequests(id) ==
    {SseRequest(Absent, JsonString(c), JsonString("tools/call"), AddOneAndTwo, id) :
         c \in ClientIds}
        \cup {SseRequest(JsonString("a"), Absent, JsonString("tools/call"), AddOneAndTwo, id),
              SseRequest(Absent, Absent, JsonString("tools/call"), AddOneAndTwo, id),
              SseRequest(Absent, JsonString(""), JsonString("tools/list"), Absent, id),
              SseRequest(JsonString("b"), Absent, Absent, Absent, Absent),
              SseRequest(Absent, Absent, Absent, Absent, Absent),
              SseRequest(Absent, JsonString("a"), JsonString("tools/list"), Absent, id),
              SseRequest(Absent, JsonString("b"), JsonString("initialize"), Absent, id),
              SseRequest(Absent, JsonString("b"), JsonString("tools/call"), List(<<>>), id)}

\* GET /sse/connect?client_id=...: the client is registered with an empty
\* list, and its stream starts (it yields the event 'connected')
sse_connect(s) ==
    /\ streams[s].pc = "none"
    /\ \E client_id \in ClientIds :
           /\ lists' = Append(lists, <<>>)
           /\ dicts' = Append(dicts, [pending_responses |-> Len(lists) + 1])
           /\ sse_clients' = SetItem(sse_clients, client_id, Len(dicts) + 1)
           /\ active_connections' = active_connections \cup {client_id}
           /\ streams' = [streams EXCEPT ![s] =
                              [NotConnected EXCEPT !.pc = "while", !.client_id = client_id]]
    /\ UNCHANGED <<posts, answered, calculator_side>>

\* while client_id in active_connections: no more
WhileExit(s) ==
    /\ streams[s].pc = "while"
    /\ streams[s].client_id \notin active_connections
    /\ streams' = [streams EXCEPT ![s].pc = "finally"]
    /\ UNCHANGED <<sse_clients, active_connections, dicts, lists, posts, answered,
                   calculator_side>>

\* the client is registered and its list is not empty: the for loop starts
\* on that list (otherwise the stream sleeps and tests again)
ForStart(s) ==
    LET client_id == streams[s].client_id
    IN /\ streams[s].pc = "while"
       /\ client_id \in active_connections
       /\ client_id \in DOMAIN sse_clients
       /\ LET client_data == sse_clients[client_id]
              pending_responses == dicts[client_data].pending_responses
          IN /\ lists[pending_responses] # <<>>
             /\ streams' = [streams EXCEPT ![s].pc = "for",
                                           ![s].client_data = client_data,
                                           ![s].iterated = pending_responses,
                                           ![s].index = 0]
       /\ UNCHANGED <<sse_clients, active_connections, dicts, lists, posts, answered,
                      calculator_side>>

\* the next item of the list, as long as there is one: yield the event
\* 'message'
ForYield(s) ==
    /\ streams[s].pc = "for"
    /\ streams[s].index < Len(lists[streams[s].iterated])
    /\ streams' = [streams EXCEPT
                      ![s].index = @ + 1,
                      ![s].emitted = Append(@, lists[streams[s].iterated][streams[s].index + 1])]
    /\ UNCHANGED <<sse_clients, active_connections, dicts, lists, posts, answered,
                   calculator_side>>

\* the list has no next item: the loop is over
ForEnd(s) ==
    /\ streams[s].pc = "for"
    /\ streams[s].index >= Len(lists[streams[s].iterated])
    /\ streams' = [streams EXCEPT ![s].pc = "clear"]
    /\ UNCHANGED <<sse_clients, active_connections, dicts, lists, posts, answered,
                   calculator_side>>

\* client_data['pending_responses'] = []
ClearPending(s) ==
    /\ streams[s].pc = "clear"
    /\ lists' = Append(lists, <<>>)
    /\ dicts' = [dicts EXCEPT ![streams[s].client_data].pending_responses = Len(lists) + 1]
    /\ streams' = [streams EXCEPT ![s].pc = "while"]
    /\ UNCHANGED <<sse_clients, active_connections, posts, answered, calculator_side>>

\* the client closes the connection: GeneratorExit at the yield the stream
\* is suspended at (of 'connected', of a heartbeat or of a message)
Disconnect(s) ==
    /\ \/ streams[s].pc = "while"
       \/ streams[s].pc = "for" /\ streams[s].index > 0
    /\ streams' = [streams EXCEPT ![s].pc = "finally"]
    /\ UNCHANGED <<sse_clients, active_connections, dicts, lists, posts, answered,
                   calculator_side>>

\* finally: active_connections.discard(client_id); del sse_clients[client_id]
Finally(s) ==
    /\ streams[s].pc = "finally"
    /\ active_connections' = active_connections \ {streams[s].client_id}
    /\ sse_clients' = DelItem(sse_clients, streams[s].client_id)
    /\ streams' = [streams EXCEPT ![s].pc = "ended"]
    /\ UNCHANGED <<dicts, lists, posts, answered, calculator_side>>

\* A handler that answers 202 for a client that is not connected.
ReceiveAnswering202(r) ==
    /\ posts[r].pc = "none"
    /\ \E request \in SseRequests(Scalar(IntV(r))) :
           LET begun == sse_mcp_request(request)
           IN posts' = [posts EXCEPT ![r] =
                  IF IsReply(begun)
                  THEN [NotPosted EXCEPT !.pc = "done", !.request = request, !.reply = begun]
                  ELSE IF begun.client_id \notin DOMAIN sse_clients
                  THEN [NotPosted EXCEPT !.pc = "done", !.request = request,
                                         !.reply = Queued(begun.response_data.id)]
                  ELSE [NotPosted EXCEPT !.pc = "subscript", !.request = request,
                                         !.client_id = begun.client_id,
                                         !.response_data = begun.response_data]]
    /\ UNCHANGED <<sse_clients, active_connections, dicts, lists, streams, answered,
                   calculator_side>>

\* POST /sse/mcp, up to and with the test 'client_id in sse_clients'
Receive(r) ==
    /\ posts[r].pc = "none"
    /\ \E request \in SseRequests(Scalar(IntV(r))) :
           LET begun == sse_mcp_request(request)
           IN posts' = [posts EXCEPT ![r] =
                  IF IsReply(begun)
                  THEN [NotPosted EXCEPT !.pc = "done", !.request = request, !.reply = begun]
                  ELSE IF begun.client_id \notin DOMAIN sse_clients
                  THEN [NotPosted EXCEPT !.pc = "done", !.request = request,
                                         !.reply = SseError(404, "Client not connected")]
                  ELSE [NotPosted EXCEPT !.pc = "subscript", !.request = request,
                                         !.client_id = begun.client_id,
                                         !.response_data = begun.response_data]]
    /\ UNCHANGED <<sse_clients, active_connections, dicts, lists, streams, answered,
                   calculator_side>>

\* sse_clients[client_id]['pending_responses']: the list is loaded, or the
\* client is gone by now (KeyError, answered 500)
Subscript(r) ==
    /\ posts[r].pc = "subscript"
    /\ posts' = [posts EXCEPT ![r] =
           IF posts[r].client_id \in DOMAIN sse_clients
           THEN [@ EXCEPT !.pc = "append",
                          !.list = dicts[sse_clients[posts[r].client_id]].pending_responses]
           ELSE [@ EXCEPT !.pc = "done", !.reply = SseError(500, "KeyError")]]
    /\ UNCHANGED <<sse_clients, active_connections, dicts, lists, streams, answered,
                   calculator_side>>

\* .append(response_data), and the answer 202 'queued'
AppendResponse(r) ==
    /\ posts[r].pc = "append"
    /\ lists' = [lists EXCEPT ![posts[r].list] = Append(@, posts[r].response_data)]
    /\ posts' = [posts EXCEPT ![r].pc = "done",
                              ![r].reply = Queued(posts[r].response_data.id)]
    /\ answered' = Append(answered, [client_id |-> posts[r].client_id,
                                     response_data |-> posts[r].response_data])
    /\ UNCHANGED <<sse_clients, active_connections, dicts, streams, calculator_side>>

SseNext ==
    \/ \E s \in Connections :
           \/ sse_connect(s)
           \/ WhileExit(s)
           \/ ForStart(s)
           \/ ForYield(s)
           \/ ForEnd(s)
           \/ ClearPending(s)
           \/ Disconnect(s)
           \/ Finally(s)
    \/ \E r \in Posts :
           \/ Receive(r)
           \/ Subscript(r)
           \/ AppendResponse(r)

SseSpec == Init /\ [][SseNext]_vars

(***************************************************************************)
(* The vocabulary of the properties.                                       *)
(***************************************************************************)
CalculatorOps ==
    {"add", "subtract", "multiply", "divide", "power", "sqrt", "factorial",
     "modulo", "absolute"}

\* The call reached the operation: call_calculator_method could unpack the
\* list of numbers.
Reached ==
    /\ op \in CalculatorOps
    /\ \A key \in DOMAIN args \cap {"numbers", "subtrahends", "divisors"} :
            IsIterable(args[key])

\* the operand given under a name (None when there is none), and the list
Given(key) == <<GetScalar(args, key)>>
Listed(key) == IF key \in DOMAIN args THEN args[key].list ELSE <<>>

\* the operands of the call, in the order of the operation's parameters
Operands ==
    CASE op \in {"add", "multiply"} -> Listed("numbers")
      [] op = "subtract" -> Given("minuend") \o Listed("subtrahends")
      [] op = "divide" -> Given("dividend") \o Listed("divisors")
      [] op = "power" -> Given("base") \o Given("exponent")
      [] op = "modulo" -> Given("dividend") \o Given("divisor")
      [] OTHER -> Given("number")

InvalidOperand(v) == ~IsNumber(v) \/ AbsGreater(v, CALC_MAX_VALUE)
AllValid == \A i \in 1..Len(Operands) : ~InvalidOperand(Operands[i])

AtLeastTwo ==
    CASE op = "add" -> Error("Addition requires at least 2 numbers")
      [] op = "subtract" -> Error("Subtraction requires at least 2 numbers")
      [] op = "multiply" -> Error("Multiplication requires at least 2 numbers")
      [] op = "divide" -> Error("Division requires at least 2 numbers")

(***************************************************************************)
(* C7.  Every calculator operation returns an error, and no result, when   *)
(* any one of its operands is not a number or is above CALC_MAX_VALUE in   *)
(* magnitude, whatever the other operands are.                             *)
(***************************************************************************)
C7_InvalidOperandIsError ==
    (Reached /\ \E i \in 1..Len(Operands) : InvalidOperand(Operands[i]))
        => IsError(ret) /\ ~IsResult(ret)

\* the last of three operands is the invalid one
C7_Witness ==
    /\ op = "subtract" /\ Reached /\ Len(Operands) = 3
    /\ ~InvalidOperand(Operands[1]) /\ ~InvalidOperand(Operands[2])
    /\ Operands[3] = IntV(CALC_MAX_VALUE + 1)
    /\ IsError(ret)

(***************************************************************************)
(* C9.  factorial(n) of an integer n: the error 'non-negative integer' for *)
(* n < 0, the error 'too large for factorial' for n > 170, and for         *)
(* 0 <= n <= 170 the result n! when n! <= CALC_MAX_VALUE and the magnitude *)
(* error otherwise.                                                        *)
(***************************************************************************)
C9_FactorialDomain ==
    (op = "factorial" /\ "number" \in DOMAIN args
        /\ args.number.scalar.t = "int" /\ args.number.scalar.d = 1)
    => LET n == args.number.scalar.n
       IN IF n < 0 THEN ret = Error("Factorial requires a non-negative integer")
          ELSE IF n > 170
          THEN ret = Error("Number too large for factorial calculation (max: 170)")
          ELSE IF FactCapped(n) <= CALC_MAX_VALUE THEN ret = Result(IntV(FactCapped(n)))
          ELSE ret = Error("Result too large")

C9_Witness ==
    /\ op = "factorial" /\ args = [number |-> Scalar(IntV(171))]
    /\ ret = Error("Number too large for factorial calculation (max: 170)")

(***************************************************************************)
(* C10.  add and multiply with fewer than 2 operands, and subtract and     *)
(* divide with a leading operand and no other, return the error 'requires  *)
(* at least 2 numbers', whatever the operands; with enough operands, all   *)
(* of them valid, they do not.                                             *)
(***************************************************************************)
C10_AtLeastTwoNumbers ==
    /\ (op \in {"add", "multiply"} /\ Reached /\ Len(Operands) < 2)
            => ret = AtLeastTwo
    /\ (op = "subtract" /\ Reached /\ "minuend" \in DOMAIN args /\ Len(Operands) < 2)
            => ret = AtLeastTwo
    /\ (op = "divide" /\ Reached /\ "dividend" \in DOMAIN args /\ Len(Operands) < 2)
            => ret = AtLeastTwo
    /\ (op \in {"add", "subtract", "multiply", "divide"} /\ Reached
            /\ Len(Operands) >= 2 /\ AllValid)
            => ret # AtLeastTwo

\* a single operand that is no number: the count is what the error is about
C10_Witness ==
    /\ op = "add" /\ Reached /\ Operands = <<StrVal>>
    /\ ret = Error("Addition requires at least 2 numbers")

\* The expression of the call is a text (a JSON string).
ParsedText ==
    /\ op = "parse_expression"
    /\ "expression" \in DOMAIN args
    /\ "text" \in DOMAIN args.expression

\* the canonical expression: what _evaluate_expression is given
Canonical(expression) ==
    _convert_to_math_expression(_normalize_expression(expression))

\* eval stops at a division or a remainder by zero: at /, //, % or a power
\* of zero (ZeroDivisionError), or at pow(x, y, 0), which is x ** y % 0
ByZero(evaluated) ==
    /\ IsRaised(evaluated)
    /\ \/ evaluated.raise = "ZeroDivisionError"
       \/ evaluated.msg = "pow() 3rd argument cannot be 0"

\* eval is reached, and divides by zero
DividesByZero(canonical) ==
    /\ ~IsDangerous(canonical)
    /\ ByZero(PyEval(RewriteSafeFunctions(canonical, 1)))

(***************************************************************************)
(* C5.  A division or a modulo by zero returns the dedicated error: divide *)
(* with a zero among its divisors, at any position; modulo with divisor 0; *)
(* an expression whose evaluation divides or takes a remainder by zero.    *)
(***************************************************************************)
C5_DivisionByZeroError ==
    /\ (op = "divide" /\ Reached /\ AllValid
            /\ \E i \in 2..Len(Operands) : IsZero(Operands[i]))
            => ret = Error("Division by zero")
    /\ (op = "modulo" /\ AllValid /\ IsZero(Operands[2]))
            => ret = Error("Division by zero in modulo operation")
    /\ (ParsedText /\ DividesByZero(Canonical(args.expression.text)))
            => ret = CouldNotParse("Division by zero")

(***************************************************************************)
(* C8.  Every call returns a value with exactly one of a result and an     *)
(* error, and none raises: no calculator operation raises to               *)
(* call_calculator_method, whose value for the tool's name is the value    *)
(* returned, and an error of parse_expression is the one                   *)
(* parse_and_evaluate made of the exception it caught.                     *)
(***************************************************************************)
C8_ResultOrErrorNeverRaises ==
    op # "none" =>
        /\ ~IsRaised(ret)
        /\ IsResult(ret) # IsError(ret)
        /\ Reached => ~IsRaised(call_calculator_method_body(op, args))
        /\ ret = call_calculator_method(op, args)
        /\ (op = "parse_expression" /\ IsError(ret)) => "prefix" \in DOMAIN ret

\* an expression that is no text, through call_calculator_method
C8_Witness ==
    /\ op = "parse_expression"
    /\ args = [expression |-> Scalar(IntV(5))]
    /\ IsError(ret) /\ ~IsResult(ret) /\ "prefix" \in DOMAIN ret

(***************************************************************************)
(* C4.  For integers A and B within CALC_MAX_VALUE, the expression         *)
(* "A plus B" and add(A, B) have the same outcome: both the result A + B,  *)
(* or both an error, when A + B is above CALC_MAX_VALUE in magnitude.      *)
(***************************************************************************)
C4_PlusAgreesWithAdd ==
    (ParsedText /\ Contains(args.expression.text, "plus")) =>
        \A a, b \in SentenceNumbers :
            args.expression.text = Sentence(<<>>, Str(a), <<"plus">>, Str(b), <<>>)
            => \/ /\ ret = Result(IntV(a + b))
                  /\ add(<<IntV(a), IntV(b)>>) = Result(IntV(a + b))
               \/ /\ IsError(ret) /\ IsError(add(<<IntV(a), IntV(b)>>))
                  /\ Abs(a + b) > CALC_MAX_VALUE

\* the sum is CALC_MAX_VALUE itself
C4_Witness ==
    /\ ParsedText
    /\ args.expression.text =
            Sentence(<<>>, Str(CALC_MAX_VALUE \div 2), <<"plus">>,
                     Str(CALC_MAX_VALUE \div 2 + 1), <<>>)
    /\ ret = Result(IntV(CALC_MAX_VALUE))

(***************************************************************************)
(* C6.  Every result returned by parse_and_evaluate or by a calculator     *)
(* operation has magnitude at most CALC_MAX_VALUE.                         *)
(***************************************************************************)
C6_ResultWithinMaxValue ==
    (op # "none" /\ IsResult(ret)) => AbsAtMost(ret.result, CALC_MAX_VALUE)

(***************************************************************************)
(* C1.  An input that holds a dangerous pattern returns the security       *)
(* error 'Potentially dangerous expression', whatever surrounds the match. *)
(***************************************************************************)
C1_DangerousInputIsSecurityError ==
    (ParsedText /\ IsDangerous(args.expression.text))
        => ret = CouldNotParse("Potentially dangerous expression")

\* the names the specification lists as the functions of an expression
WhitelistedFunctions ==
    {"abs", "round", "max", "min", "sum", "pow", "sqrt", "factorial"}

\* an identifier that is none of the functions
RefersToOtherName(toks) ==
    \E i \in 1..Len(toks) :
        toks[i].k = "name" /\ toks[i].s \notin WhitelistedFunctions \cup Keywords

\* name.name
UsesAttribute(toks) ==
    \E i \in 2..(Len(toks) - 1) :
        toks[i - 1].k = "name" /\ IsOp(toks[i], ".") /\ toks[i + 1].k = "name"

OutsideWhitelist(toks) == RefersToOtherName(toks) \/ UsesAttribute(toks)

(***************************************************************************)
(* C2.  A canonical expression that refers to an identifier other than     *)
(* abs, round, max, min, sum, pow, sqrt, factorial, or takes an attribute  *)
(* of a name, returns an error and never a result.                         *)
(***************************************************************************)
C2_OnlyWhitelistedNames ==
    (ParsedText /\ OutsideWhitelist(Tokenize(Canonical(args.expression.text), 1)))
        => IsError(ret) /\ ~IsResult(ret)

\* a word: an item of letters
IsLetters(c) == IsWordChar(c) /\ ~IsDigit(c) /\ c # "__"

\* s[i] is a token of its own: no word character on either side
Alone(s, i) ==
    /\ (i > 1 => ~IsWordChar(s[i - 1]))
    /\ (i < Len(s) => ~IsWordChar(s[i + 1]))

\* an alphabetic token that is no function name
HasUnrecognizedWord(s) ==
    \E i \in 1..Len(s) :
        IsLetters(s[i]) /\ ~(s[i] \in WhitelistedFunctions /\ Alone(s, i))

(***************************************************************************)
(* C3.  An input whose canonical string holds an alphabetic token that is  *)
(* no recognized function name returns an error: never a result.           *)
(***************************************************************************)
C3_UnrecognizedWordIsError ==
    (ParsedText /\ HasUnrecognizedWord(Canonical(args.expression.text)))
        => IsError(ret)
(***************************************************************************)
(* C11.  power(base, exponent), for every base that is a number within     *)
(* CALC_MAX_VALUE and every exponent that is a number: the error 'Exponent *)
(* too large' is returned if and only if |exponent| > 1000.                *)
(***************************************************************************)
ExponentTooLarge == Error("Exponent too large (max: 1000)")

PowerOf(valid_exponent) ==
    /\ op = "power"
    /\ ~InvalidOperand(Operands[1])
    /\ IsNumber(Operands[2])
    /\ valid_exponent => ~InvalidOperand(Operands[2])

C11_ExponentTooLarge ==
    PowerOf(FALSE) => (ret = ExponentTooLarge <=> AbsGreater(Operands[2], 1000))

(***************************************************************************)
(* C11, for the operands that pass the validation.  power(base, exponent), *)
(* for every base and exponent that are numbers within CALC_MAX_VALUE:     *)
(* the error 'Exponent too large' is returned if and only if               *)
(* |exponent| > 1000; and no call of power at all returns it for an        *)
(* exponent with |exponent| <= 1000.                                       *)
(***************************************************************************)
C11_ExponentTooLargeWhenValid ==
    /\ PowerOf(TRUE) => (ret = ExponentTooLarge <=> AbsGreater(Operands[2], 1000))
    /\ (op = "power" /\ ret = ExponentTooLarge) => AbsGreater(Operands[2], 1000)

\* 0 to the power of 1001
C11_Witness ==
    /\ PowerOf(TRUE)
    /\ Operands = <<IntV(0), IntV(1001)>>
    /\ ret = ExponentTooLarge

(***************************************************************************)
(* C12.  Normalization is idempotent: for every text x,                    *)
(* _normalize_expression(_normalize_expression(x)) is                      *)
(* _normalize_expression(x).                                               *)
(***************************************************************************)
C12_NormalizationIdempotent ==
    ParsedText =>
        LET normalized == _normalize_expression(args.expression.text)
        IN _normalize_expression(normalized) = normalized

\* the number of places of s where the phrase stands
Occurrences(phrase, s) == Cardinality({k \in 1..Len(s) : MatchAt(s, k, phrase)})

\* the trimmed, lower-cased form of a text
Trimmed(expression) == StrStrip(StrLower(expression))

StartsWithNoPhrase(s) == \A i \in 1..Len(prefixes) : ~StartsWith(s, prefixes[i])

(***************************************************************************)
(* C13.  A leading phrase is removed as a prefix only: for every text      *)
(* whose trimmed, lower-cased form starts with none of the phrases, every  *)
(* phrase stands in the normalized text as many times as in that form, or  *)
(* more (blanks that collapse can complete one).                           *)
(***************************************************************************)
C13_PhraseRemovedAsPrefixOnly ==
    (ParsedText /\ StartsWithNoPhrase(Trimmed(args.expression.text))) =>
        \A i \in 1..Len(prefixes) :
            Occurrences(prefixes[i], _normalize_expression(args.expression.text))
                >= Occurrences(prefixes[i], Trimmed(args.expression.text))

\* '5 plus find 5' keeps its 'find '
C13_Witness ==
    /\ ParsedText
    /\ args.expression.text = <<"5", " ", "plus", " ", "find", " ", "5">>
    /\ Occurrences(prefixes[4], _normalize_expression(args.expression.text)) = 1
    /\ IsError(ret)

(***************************************************************************)
(* C14.  'square root of N', for every integer N from 0 to CALC_MAX_VALUE, *)
(* returns a result, the square root of N: for a square N, the integer     *)
(* whose square is N ('square root of 25' returns 5).                      *)
(***************************************************************************)
C14_SquareRootOfN ==
    ParsedText =>
        \A n \in PhraseNumbers :
            args.expression.text = SquareRootOf(n) =>
                /\ IsResult(ret)
                /\ IsSquare(n) => ret.result = IntV(ISqrt(n))

(***************************************************************************)
(* C15.  'factorial of N', for every integer N >= 0 with                   *)
(* N! <= CALC_MAX_VALUE, returns the result N! ('factorial of 5' returns   *)
(* 120).                                                                   *)
(***************************************************************************)
C15_FactorialOfN ==
    ParsedText =>
        \A n \in PhraseNumbers :
            (args.expression.text = FactorialOf(n) /\ n <= 170
                /\ FactCapped(n) <= CALC_MAX_VALUE)
            => ret = Result(IntV(FactCapped(n)))

\* the number that a word of ModifierWords or the digits of a text stand for
NumberWritten(number) ==
    CASE number = <<"zero">> -> 0
      [] number = <<"two">> -> 2
      [] number = <<"five">> -> 5
      [] number = <<"ten">> -> 10
      [] OTHER -> DigitsVal(number, 1, Len(number) + 1, 0)

ModifierOperands == {StrNat(n) : n \in ModifierNumbers} \cup ModifierWords

\* the outcome for a value that has to be within the bound to be returned
WithinBound(value) ==
    IF value <= CALC_MAX_VALUE THEN ret = Result(IntV(value)) ELSE IsError(ret)

Precedence(o) ==
    CASE o \in {"+", "-"} -> 1
      [] o \in {"*", "/", "%"} -> 2
      [] o = "**" -> 3

\* x o y, for operands that were evaluated or raised
Applied(o, x, y) ==
    IF IsRaised(x) THEN x
    ELSE IF IsRaised(y) THEN y
    ELSE BinaryOp(o, x.result, y.result)

\* a o1 b o2 c: the operator of higher precedence first, the left one of two
\* of the same precedence first
StandardPrecedence(a, o1, b, o2, c) ==
    IF Precedence(o2) > Precedence(o1)
    THEN Applied(o1, Result(IntV(a)), Applied(o2, Result(IntV(b)), Result(IntV(c))))
    ELSE Applied(o2, Applied(o1, Result(IntV(a)), Result(IntV(b))), Result(IntV(c)))

\* what parse_and_evaluate returns for an evaluation of that outcome
Returned(evaluated) == CatchAsCouldNotParse(CheckEvaluated(evaluated))

(***************************************************************************)
(* C17.  Expressions are evaluated with the standard precedence:           *)
(* parentheses, then exponentiation, then multiplication, division and     *)
(* modulo, then addition and subtraction, and operators of the same        *)
(* precedence from left to right, whether written as symbols or as words:  *)
(* 'a o1 b o2 c' returns the value of that order for all operators o1 and  *)
(* o2, '2 + 3 * 4' returns 14, '(2 + 3) * 4' returns 20 and                *)
(* 'four times 2 plus 4' returns 12.                                       *)
(***************************************************************************)
C17_StandardPrecedence ==
    (ParsedText /\ args.expression.text \in Chains) =>
        LET text == args.expression.text
        IN /\ \A a, b, c \in PrecedenceOperands : \A o1, o2 \in PrecedenceOperators :
                text \in {Chain(a, OperatorSymbol(o1), b, OperatorSymbol(o2), c),
                          Chain(a, OperatorWord(o1), b, OperatorWord(o2), c)}
                    => ret = Returned(StandardPrecedence(a, o1, b, o2, c))
           /\ text = <<"(", "2", " ", "+", " ", "3", ")", " ", "*", " ", "4">>
                => ret = Result(IntV(20))
           /\ text = <<"four", " ", "times", " ", "2", " ", "plus", " ", "4">>
                => ret = Result(IntV(12))

(***************************************************************************)
(* C18.  An expression that is not well-formed arithmetic returns an       *)
(* error and no result: so does every text with two consecutive binary     *)
(* operator symbols between its operands ('2 + + 3'), and every text that  *)
(* begins with a binary operator ('/ 5').                                  *)
(***************************************************************************)
C18_MalformedIsError ==
    (ParsedText /\ \/ \E o1, o2 \in BinaryOnly :
                          args.expression.text = TwoOperators(o1, o2)
                   \/ \E o \in BinaryOnly : args.expression.text = LeadingOperator(o))
        => IsError(ret) /\ ~IsResult(ret)

(***************************************************************************)
(* C19.  parse_and_evaluate and the operations of the calculator are       *)
(* stateless: whatever the interleaving of the requests on the shared      *)
(* engine, the attributes of the parser stay as they were loaded, and      *)
(* every call that has returned has the outcome of the same call run       *)
(* alone on the same arguments.                                            *)
(***************************************************************************)
\* the thread has called a tool and the tool has returned
HasReturned(t) == requests[t].pc = "done" /\ requests[t].called # "none"

\* the response to the request of the thread when its call runs alone
RunAlone(t) ==
    LET handled == handle_mcp_request(requests[t].data)
    IN JsonRpcResult(call_calculator_method(handled.tool_name, handled.arguments),
                     handled.request_id)

C19_Stateless ==
    /\ parser = MathExpressionParser
    /\ \A t \in Threads : HasReturned(t) => requests[t].response = RunAlone(t)

\* one expression has been evaluated to 8 while another thread is in the
\* middle of its own
C19_Witness ==
    \E t, u \in Threads :
        /\ t # u
        /\ HasReturned(t)
        /\ requests[t].called = "parse_expression"
        /\ requests[t].response = JsonRpcResult(Result(IntV(8)), RequestId)
        /\ requests[u].pc = "convert"
        /\ requests[u].expression = Text(<<"2", " ", "/", " ", "0">>)

(***************************************************************************)
(* C20.  A POST /mcp whose body is a non-empty JSON object is answered     *)
(* with the JSON-RPC error -32601 and the id of the request, and no        *)
(* operation of the calculator is called for it, when it is a tools/call   *)
(* that names a tool that is not in the registry, and when its method is   *)
(* neither tools/list nor tools/call.  (A name is a string; a tools/call   *)
(* whose params are no object or whose name is an array or an object       *)
(* names no tool, and is answered with the error -32603.)                  *)
(***************************************************************************)
MethodOf(data) == Get(data, "method", Scalar(NoneVal))

NamesUnregisteredTool(data) ==
    /\ MethodOf(data) = JsonString("tools/call")
    /\ "params" \in DOMAIN data
    /\ IsDict(data.params)
    /\ "name" \in DOMAIN data.params
    /\ "string" \in DOMAIN data.params.name
    /\ data.params.name.string \notin MCP_TOOLS

OtherMethod(data) ==
    MethodOf(data) \notin {JsonString("tools/list"), JsonString("tools/call")}

\* the request of the thread has gone through the handler
Handled(t) == requests[t].pc \notin {"idle", "handle"}

NotFound(t) ==
    /\ requests[t].pc = "done"
    /\ requests[t].called = "none"
    /\ "error" \in DOMAIN requests[t].response
    /\ requests[t].response.error.code = -32601
    /\ requests[t].response.id = Get(requests[t].data, "id", Scalar(NoneVal))

PastTheScan ==
    \/ evaluation.pc = "rewrite"
    \/ evaluation.rewritten > 0
    \/ evaluation.evaluated

C22_ScanBeforeRewriteAndEval ==
    /\ PastTheScan =>
           /\ evaluation.scanned = Len(dangerous_patterns)
           /\ ~IsDangerous(evaluation.given)
    /\ (evaluation.pc # "none" /\ IsDangerous(evaluation.given)) =>
           /\ ~PastTheScan
           /\ evaluation.expr = evaluation.given
           /\ evaluation.pc = "returned" =>
                  evaluation.result = Raised("ValueError", "Potentially dangerous expression")

\* 'eval(2+3)' has passed two patterns and is stopped by the third, with
\* the function names of the expression as they were given
C22_Witness ==
    /\ evaluation.given = <<"eval", "(", "2", "+", "3", ")">>
    /\ evaluation.pc = "returned"
    /\ evaluation.scanned > 0
    /\ evaluation.scanned < Len(dangerous_patterns)
    /\ evaluation.result = Raised("ValueError", "Potentially dangerous expression")
    /\ ~PastTheScan

(***************************************************************************)
(* C23.  Every result that parse_and_evaluate returns is a number, an      *)
(* integer or a floating value: an expression whose value is of another    *)
(* kind, such as the truth value of a comparison or of 'not', returns an   *)
(* error and not that value.                                               *)
(***************************************************************************)
C23_ResultIsIntegerOrFloat ==
    (ParsedText /\ IsResult(ret)) => ret.result.t \in {"int", "float"}

\* the value the loop of multiply or divide starts with, the operands it
\* steps through, and its error
LoopStart == IF op = "multiply" THEN IntV(1) ELSE Operands[1]
LoopOperands == IF op = "multiply" THEN Operands ELSE Tail(Operands)
TooLargeDuring ==
    IF op = "multiply" THEN Error("Result too large during multiplication")
    ELSE Error("Result too large during division")
EntersLoop ==
    /\ op \in {"multiply", "divide"}
    /\ Reached
    /\ Len(Operands) >= 2
    /\ AllValid
    /\ op = "divide" => \A i \in 2..Len(Operands) : ~IsZero(Operands[i])
ExceedsAt(k) == AbsGreater(Running(op, LoopStart, LoopOperands, k), CALC_MAX_VALUE)

(***************************************************************************)
(* C24.  multiply and divide check the running value after every step:     *)
(* with valid operands (and no zero divisor), the call returns the 'too    *)
(* large' error of the operation as soon as one partial product or         *)
(* quotient exceeds CALC_MAX_VALUE in magnitude, also when the value over  *)
(* all the operands is within the bound; when no partial value exceeds it, *)
(* the final value is returned.                                            *)
(***************************************************************************)
C24_RunningValueIsChecked ==
    EntersLoop =>
        IF \E k \in 1..Len(LoopOperands) : ExceedsAt(k)
        THEN ret = TooLargeDuring
        ELSE ret = Result(Running(op, LoopStart, LoopOperands, Len(LoopOperands)))

\* multiply(CALC_MAX_VALUE, 2, 0): the product of all three is 0, the
\* product of the first two is too large
C24_Witness ==
    /\ op = "multiply"
    /\ EntersLoop
    /\ Operands = <<IntV(CALC_MAX_VALUE), IntV(2), IntV(0)>>
    /\ ExceedsAt(2)
    /\ ~ExceedsAt(3)
    /\ ret = Error("Result too large during multiplication")

\* divide(CALC_MAX_VALUE, 0.5, 2): the last quotient is within the bound
\* again, the first one is not
C24_WitnessDivide ==
    /\ op = "divide"
    /\ EntersLoop
    /\ Operands = <<IntV(CALC_MAX_VALUE), Flt(1, 2), IntV(2)>>
    /\ ExceedsAt(1)
    /\ ~ExceedsAt(2)
    /\ ret = Error("Result too large during division")

\* the canonical string of the parser whose operation words are the given
\* mapping: _convert_to_math_expression with that mapping for
\* self.operation_words
RECURSIVE ReplaceWordsOf(_, _, _)
ReplaceWordsOf(words, expr, i) ==
    IF i > Len(words) THEN expr
    ELSE LET replaced ==
                 IF words[i].word = ToThePowerOf
                 THEN ReSubWords(ToThePowerOf, <<"*", "*">>, expr)
                 ELSE IF words[i].word = SquareRoot
                 THEN ReSubWords(<<"square", " ", "root", " ", "of">>, <<"sqrt">>, expr)
                 ELSE ReSubWords(words[i].word, words[i].symbol, expr)
         IN ReplaceWordsOf(words, replaced, i + 1)

ConvertedUnder(words, expr) ==
    LET numbers == ReplaceNumberWords(expr, 1)
        symbols == ReplaceWordsOf(words, numbers, 1)
        squared == ReSubPostfix("squared", <<"*", "*", "2">>, symbols)
        cubed == ReSubPostfix("cubed", <<"*", "*", "3">>, squared)
        compact == StripSpacesAround(OperatorChars, cubed)
    IN StrStrip(StripSpacesAroundPower(compact))

Converted == op = "_convert_to_math_expression"

(***************************************************************************)
(* C25.  An operation phrase of several words is replaced as a whole: the  *)
(* canonical string that _convert_to_math_expression produces for a text   *)
(* is the same in every order of the operation-word mapping, also when a   *)
(* single word of the phrase is a key of the mapping.                      *)
(***************************************************************************)
C25_SameInEveryOrder ==
    Converted =>
        \A order \in Orders(parser.operation_words) :
            ConvertedUnder(order, args) = ret

\* the expression of the call raises a base to an exponent above 1000 in
\* magnitude
RaisesAboveLimit ==
    /\ ParsedText
    /\ \E b \in PowerBases : \E e \in PowerExponents :
           /\ e > 1000 \/ e < -1000
           /\ args.expression.text \in {ToThePower(b, e), StarStar(b, e), PowCall(b, e)}

(***************************************************************************)
(* C26.  The exponent guard holds on the expression path as well:          *)
(* parse_and_evaluate returns an error, and no result, for every           *)
(* expression that raises a base to an exponent of magnitude above 1000,   *)
(* written 'B to the power of E', 'B ** E' or 'pow(B, E)'.                 *)
(***************************************************************************)
C26_ExponentGuardOnExpressions ==
    RaisesAboveLimit => IsError(ret) /\ ~IsResult(ret)

\* a number that is no integer: 3.5, and nan and inf as well
NonIntegral(v) == IsNumber(v) /\ ~IsInteger(v)

\* the text holds factorial(x) for an x that is no integer
HoldsFactorialOfNonInteger(s) ==
    \E x \in NonIntegers : \E i \in 1..Len(s) : MatchAt(s, i, FactorialCall(x))

(***************************************************************************)
(* C27.  A factorial of a number that is no integer returns an error and   *)
(* no result on both paths: the operation factorial(x), and                *)
(* parse_and_evaluate of every expression that holds factorial(x), such as *)
(* 'factorial(3.5)'.                                                       *)
(***************************************************************************)
C27_FactorialOfNonInteger ==
    /\ (op = "factorial" /\ "number" \in DOMAIN args /\ NonIntegral(GetScalar(args, "number")))
            => IsError(ret) /\ ~IsResult(ret)
    /\ (ParsedText /\ HoldsFactorialOfNonInteger(args.expression.text))
            => IsError(ret) /\ ~IsResult(ret)

LegacyEvaluated == op = "app._evaluate_expression"

\* what _is_safe_expression is called with
Checked(expr) == ReplacePowers(RemoveNonMath(expr), 1)

(***************************************************************************)
(* C30.  In the legacy parser of app.py, _evaluate_expression removes      *)
(* every character but the digits, + - * / ( ) . e and whitespace before   *)
(* it calls _is_safe_expression: for every input the check returns True    *)
(* and the error 'Unsafe mathematical expression' is never raised; eval is *)
(* reached, also for a dangerous input.                                    *)
(***************************************************************************)
C30_NeverUnsafe ==
    LegacyEvaluated =>
        /\ _is_safe_expression(Checked(args))
        /\ ret # Unsafe
        /\ ret = EvalGiven(Checked(args))

\* 'eval(2**2)' is dangerous as it is given; what is checked, and handed to
\* eval, is 'e(pow(2,2))'
C30_Witness ==
    /\ LegacyEvaluated
    /\ args = <<"e", "v", "a", "l", "(", "2", "*", "*", "2", ")">>
    /\ ~_is_safe_expression(args)
    /\ ret = EvalGiven(<<"e", "(", "p", "o", "w", "(", "2", ",", "2", ")", ")">>)

\* the client id a request carries: that of the header, or else of the body
Carried(request) ==
    LET header == Get(request.headers, "X-Client-ID", Scalar(NoneVal))
    IN IF JsonTruthy(header) THEN header
       ELSE Get(request.data, "client_id", Scalar(NoneVal))
CarriesClientId(request) == JsonTruthy(Carried(request))

\* the client the request names is not in the registry
NamesUnknownClient(request) ==
    /\ CarriesClientId(request)
    /\ Carried(request).string \notin DOMAIN sse_clients

\* the body is a JSON object with members, and the params of a tools/call
\* are an object
WellFormed(request) ==
    /\ JsonTruthy(request.data)
    /\ Get(request.data, "method", Scalar(NoneVal)) = JsonString("tools/call")
           => IsDict(Get(request.data, "params", EmptyDict))

\* this step is the handling of the r-th request, up to its test of the registry
Received(r) == posts[r].pc = "none" /\ posts'[r].pc # "none"

NotConnected404 == SseError(404, "Client not connected")
ClientIdRequired == SseError(400, "Client ID required")

IsRunning(s) == streams[s].pc \in {"while", "for", "clear"}

\* no other connection has used the client_id of this one
OnlyConnectionOf(s) ==
    \A t \in Connections \ {s} : streams[t].client_id # streams[s].client_id

\* the responses that were answered 202 'queued' for a client, in the order
\* of their appends
QueuedFor(client_id) ==
    LET mine == SelectSeq(answered, LAMBDA a : a.client_id = client_id)
    IN [k \in 1..Len(mine) |-> mine[k].response_data]

\* what the stream is still to emit of the responses queued by now: the rest
\* of the list it iterates over, or the list it will find in the registry
\* (an empty one, once line 47 has been executed)
ToCome(s) ==
    LET client_id == streams[s].client_id
    IN CASE streams[s].pc = "for" ->
                SubSeq(lists[streams[s].iterated], streams[s].index + 1,
                       Len(lists[streams[s].iterated]))
         [] streams[s].pc = "while" /\ client_id \in DOMAIN sse_clients ->
                lists[dicts[sse_clients[client_id]].pending_responses]
         [] OTHER -> <<>>

(***************************************************************************)
(* C28.  Every response for which POST /sse/mcp answered 202 'queued' is   *)
(* emitted as a 'message' event on the stream of its client exactly once   *)
(* and in the order of the queue, as long as the stream keeps running: at  *)
(* every moment of a running stream, the events it has emitted followed by *)
(* the responses it is still to emit are the responses answered 202 for    *)
(* its client, in their order.  No interleaving of an append with the      *)
(* stream's loop and clearing loses or duplicates a response.              *)
(***************************************************************************)
C28_QueuedIsEmittedOnceInOrder ==
    \A s \in Connections :
        (IsRunning(s) /\ OnlyConnectionOf(s)) =>
            streams[s].emitted \o ToCome(s) = QueuedFor(streams[s].client_id)

\* the client_id of the connection is in sse_clients and in active_connections
Registered(s) ==
    /\ streams[s].client_id \in DOMAIN sse_clients
    /\ streams[s].client_id \in active_connections

\* a step in which the stream of s does nothing and no response is appended
StepOfAnother(s) == streams'[s] = streams[s] /\ answered' = answered

(***************************************************************************)
(* C29.  While the event stream of a connection is running, its client_id  *)
(* is in sse_clients and in active_connections, and the responses queued   *)
(* for it are kept: the end of another stream, or a new /sse/connect,      *)
(* neither unregisters it nor takes a response it is still to emit from    *)
(* its queue, also when two connections use the same client_id.            *)
(***************************************************************************)
C29_RunningStaysRegistered ==
    [][\A s \in Connections :
          /\ IsRunning(s)' => Registered(s)'
          /\ (IsRunning(s) /\ StepOfAnother(s)) => ToCome(s)' = ToCome(s)]_vars

=============================================================================
